---- MODULE Spec2Model ----
(***************************************************************************)
(* State-machine model of the asyncinput acquisition and dispatch engine   *)
(* (src/src/libasyncinput_posix.c): the process-wide engine state g, the   *)
(* acquisition worker, the legacy pointer reader (mice_worker), the public *)
(* entry points called from one application thread, and the OS objects     *)
(* (file descriptors, device packet queues, the epoll interest list).      *)
(***************************************************************************)
EXTENDS Integers, Sequences, FiniteSets, TLC

(* ---------------------------------------------------------------------- *)
(* Bounds of the model                                                     *)
(* ---------------------------------------------------------------------- *)
RingSlots == 4      \* extent of ringbuf.ev in the scaled-down engine
NumNodes  == 2      \* /dev/input/event0 .. event(NumNodes-1) exist
DevSlots  == 2      \* extent of g.devices and scan range (scaled MAX_DEVICES)
MaxPkts   == 2      \* packets the OS produces on the device nodes altogether
MaxMice   == 1      \* packets the OS produces on /dev/input/mice
FdLimit   == 6      \* per-process limit of open file descriptors
MaxCalls  == 5      \* entry-point calls the application makes (Spec, SpecLife)
LifePkts  == 1      \* device packets while the legacy reader is in use (SpecLife)
MaxOffer  == 9      \* events offered to the ring by the ring-level producer
MaxFill   == 2050   \* events offered in the fill scenario ( > 2 * RING_SIZE)
MaxXkb    == 2      \* keymap states the keymap library may build
MaxHot    == 2      \* nodes created or deleted in /dev/input altogether

(* ---------------------------------------------------------------------- *)
(* Program constants                                                       *)
(* ---------------------------------------------------------------------- *)
RING_SIZE == 1024
MAX_EPOLL_EVENTS == 16

NULL == "NULL"
Sinks == {"S1"}                       \* the sinks an application may register
CtxOf(s) == IF s = "S1" THEN "U1" ELSE IF s = "S2" THEN "U2" ELSE NULL

Min(a, b) == IF a < b THEN a ELSE b

(* struct ni_key_event after "= {0}" *)
ZeroKey ==
  [device_id |-> 0, timestamp_ns |-> 0, down |-> 0, mods |-> 0, keysym |-> 0,
   text |-> ""]

(* struct ni_event after memset(0) / "= {0}" *)
ZeroEvent ==
  [device_id |-> 0, type |-> "0", code |-> "0", value |-> 0, timestamp_ns |-> 0,
   extra |-> 0, x |-> 0, y |-> 0]

(* ---------------------------------------------------------------------- *)
(* Bounded ring: struct ringbuf { ev[RING_SIZE]; head; tail; lock }        *)
(* The array extent is  Extent(r);  the engine proper has RING_SIZE slots, *)
(* the scaled-down engine RingSlots.                                       *)
(* ---------------------------------------------------------------------- *)
Extent(r) == Cardinality(DOMAIN r.ev)

ring_init(n) == [ev |-> [i \in 0 .. n - 1 |-> ZeroEvent], head |-> 0, tail |-> 0]

(* a ring_push that overwrites the oldest slot instead of dropping *)
ring_push_overwrite(r, ev) ==
  LET next == (r.head + 1) % Extent(r) IN
  IF next # r.tail
    THEN [r EXCEPT !.ev[r.head] = ev, !.head = next]
    ELSE [r EXCEPT !.ev[r.head] = ev, !.head = next,
                   !.tail = (r.tail + 1) % Extent(r)]

ring_push(r, ev) ==
  LET next == (r.head + 1) % Extent(r) IN
  IF next # r.tail
    THEN [r EXCEPT !.ev[r.head] = ev, !.head = next]
    ELSE r

(* the while loop of ring_pop_many runs pop_count times: the first n at which
   "n < max && tail != head" fails, tail having advanced n times *)
pop_count(r, max) ==
  CHOOSE n \in 0 .. max :
    /\ n = max \/ (r.tail + n) % Extent(r) = r.head
    /\ \A j \in 0 .. n - 1 : (r.tail + j) % Extent(r) # r.head

(* a ring_pop_many that copies the newest event first *)
ring_pop_many_lifo(r, max) ==
  LET n == pop_count(r, max) IN
  [ring |-> [r EXCEPT !.tail = (r.tail + n) % Extent(r)],
   out  |-> [i \in 1 .. n |-> r.ev[(r.tail + n - i) % Extent(r)]],
   n    |-> n]

(* ring_pop_many(r, out, max): the ring afterwards, out[0..n-1], and n *)
ring_pop_many(r, max) ==
  LET n == pop_count(r, max) IN
  [ring |-> [r EXCEPT !.tail = (r.tail + n) % Extent(r)],
   out  |-> [i \in 1 .. n |-> r.ev[(r.tail + i - 1) % Extent(r)]],
   n    |-> n]

(* Observers of a ring *)
Count(r) == (r.head - r.tail + Extent(r)) % Extent(r)
Contents(r) == [i \in 1 .. Count(r) |-> r.ev[(r.tail + i - 1) % Extent(r)]]
Full(r) == Count(r) = Extent(r) - 1

(* ---------------------------------------------------------------------- *)
(* State                                                                   *)
(* ---------------------------------------------------------------------- *)
VARIABLES
  g,      \* the static engine struct  g
  os,     \* kernel objects: descriptor table, epoll interest list, input queues
  w,      \* the acquisition worker thread: position and locals
  m,      \* the legacy pointer reader thread: position and locals
  app,    \* the application thread: position, last entry point, its result
  h,      \* history: what sinks and pollers observed, what was offered
  fault   \* "none", or the fault that killed the process

vars == <<g, os, w, m, app, h, fault>>

Nodes == 0 .. NumNodes - 1
Fds   == 0 .. FdLimit - 1

NoFilter == [fn |-> FALSE, accept |-> {}]
ZeroDevice == [fd |-> 0, id |-> 0]

(* the five keymap identifier strings: xkb_rules, xkb_model, xkb_layout,
   xkb_variant, xkb_options; "" is the empty string of zeroed storage *)
ZeroNames ==
  [rules |-> "", model |-> "", layout |-> "", variant |-> "", options |-> ""]

(* ni_init: the default names where none is set *)
DefaultNames(nm) ==
  [nm EXCEPT !.rules = IF @ = "" THEN "evdev" ELSE @,
             !.model = IF @ = "" THEN "pc105" ELSE @,
             !.layout = IF @ = "" THEN "us" ELSE @]

(* the engine struct as static storage / after memset(&g, 0, sizeof g) *)
GZero(n) ==
  [initialized |-> 0, epoll_fd |-> 0, inotify_fd |-> 0, thread |-> 0,
   stop |-> 0,
   devices |-> [i \in 0 .. DevSlots - 1 |-> ZeroDevice], ndevi |-> 0,
   queue |-> ring_init(n),
   cb |-> NULL, cb_user |-> NULL,
   filter |-> NoFilter, filter_user |-> NULL,
   rescan_until_ns |-> 0,
   mice_enabled |-> 0, mice_fd |-> 0, mice_thread |-> 0,
   xkb_enabled |-> 0, xkb_state |-> 0, xkb_names |-> ZeroNames,
   key_queue |-> ring_init(n), key_cb |-> NULL, key_cb_user |-> NULL]

(* ---------------------------------------------------------------------- *)
(* Kernel objects                                                          *)
(* ---------------------------------------------------------------------- *)
(* an open file description: its kind, the node it was opened on, and the
   input the kernel has queued on it since the open *)
FreeFd == [kind |-> "free", node |-> -1, q |-> <<>>]
DevObj(n) == [kind |-> "dev", node |-> n, q |-> <<>>]
EpollObj == [kind |-> "epoll", node |-> -1, q |-> <<>>]
InotifyObj == [kind |-> "inotify", node |-> -1, q |-> <<>>]
MiceObj == [kind |-> "mice", node |-> -1, q |-> <<>>]
EPOLL_DATA_INOTIFY == -1      \* 0xFFFFFFFFu in 32 bits: the tag of the hotplug notifier

IsOpen(o, fd) == fd \in Fds /\ o.fds[fd].kind # "free"
FreeFds(o) == {fd \in Fds : o.fds[fd].kind = "free"}
LowestFree(o) == CHOOSE fd \in FreeFds(o) : \A x \in FreeFds(o) : fd <= x

(* open()/epoll_create1()/inotify_init1(): lowest free descriptor, or -1
   when the table is full or the OS has no instance of that kind left *)
sys_open(o, obj) ==
  IF FreeFds(o) = {} \/ obj.kind \in o.denied
    THEN [os |-> o, fd |-> -1]
    ELSE [os |-> [o EXCEPT !.fds[LowestFree(o)] = obj], fd |-> LowestFree(o)]

(* close(): releases the descriptor and drops it from the interest list *)
sys_close(o, fd) ==
  IF IsOpen(o, fd)
    THEN [o EXCEPT !.fds[fd] = FreeFd,
                   !.ep = {e \in o.ep : e.fd # fd /\ e.epfd # fd}]
    ELSE o

(* epoll_ctl(epfd, EPOLL_CTL_ADD, fd, tag) *)
epoll_add(o, epfd, fd, tag) ==
  IF IsOpen(o, epfd) /\ o.fds[epfd].kind = "epoll" /\ IsOpen(o, fd)
     /\ ~ \E e \in o.ep : e.epfd = epfd /\ e.fd = fd
    THEN [o EXCEPT !.ep = @ \cup {[epfd |-> epfd, fd |-> fd, tag |-> tag]}]
    ELSE o

(* a descriptor is readable when its object has input queued *)
Readable(o, fd) == IsOpen(o, fd) /\ o.fds[fd].q # <<>>

(* the tags epoll_wait(epfd) can report *)
ReadyTags(o, epfd) ==
  {e.tag : e \in {x \in o.ep : x.epfd = epfd /\ Readable(o, x.fd)}}

(* present: the nodes /dev/input/event<n> that exist *)
(* a keymap state of the keymap library: whether it is still allocated, the
   keymap codes it holds as pressed and the names it was built from; states are named 1, 2, ... in the
   order they are built, 0 is the null pointer *)
(* have_xkb: the build defines ASYNCINPUT_HAVE_XKBCOMMON *)
(* mproto: the bytes per packet of the legacy pointer stream (3: PS/2,
   4: with a wheel byte); denied: the kinds of instance the OS has none left of *)
NoXkb == [live |-> FALSE, down |-> {}, names |-> ZeroNames]

OsInit ==
  [fds |-> [fd \in Fds |-> FreeFd], ep |-> {},
   nprod |-> [n \in Nodes |-> 0], nmice |-> 0, present |-> Nodes, nhot |-> 0,
   nxkb |-> 0, xkb |-> [s \in 1 .. MaxXkb |-> NoXkb],
   denied |-> {},
   mproto |-> 3,
   have_xkb |-> TRUE]

(* ---------------------------------------------------------------------- *)
(* Device registry and discovery; a state pair is [g |-> ..., os |-> ...]  *)
(* ---------------------------------------------------------------------- *)
has_device_id(gg, id) == \E i \in 0 .. gg.ndevi - 1 : gg.devices[i].id = id

(* open_device_filtered("/dev/input/event<n>"): [os, fd, devid] *)
open_device_filtered(gg, o, n) ==
  LET r == IF n \in o.present THEN sys_open(o, DevObj(n))
                              ELSE [os |-> o, fd |-> -1] IN
  IF r.fd < 0 THEN [os |-> o, fd |-> -1, devid |-> -1]
  ELSE IF gg.filter.fn /\ n \notin gg.filter.accept
         THEN [os |-> sys_close(r.os, r.fd), fd |-> -1, devid |-> -1]
         ELSE [os |-> r.os, fd |-> r.fd, devid |-> n]

(* add_device_fd(fd, devid, path): there is no test of g.ndevi against the
   extent of g.devices; a store past the end leaves the array as it is *)
add_device_fd(st, fd, devid) ==
  [g  |-> IF st.g.ndevi < DevSlots
            THEN [st.g EXCEPT !.devices[st.g.ndevi] = [fd |-> fd, id |-> devid],
                              !.ndevi = @ + 1]
            ELSE [st.g EXCEPT !.ndevi = @ + 1],
   os |-> epoll_add(st.os, st.g.epoll_fd, fd, st.g.ndevi)]

(* the store of add_device_fd went past the end of g.devices *)
Overflowed(gg) == gg.ndevi > DevSlots

(* the process after a registry update: memory past g.devices is corrupted *)
FaultAfter(gg) == IF Overflowed(gg) THEN "registry_overflow" ELSE fault

(* remove_device_by_id(devid): the first slot with that id is unregistered,
   closed, and overwritten by the last slot *)
remove_device_by_id(st, devid) ==
  LET hit == {i \in 0 .. st.g.ndevi - 1 : st.g.devices[i].id = devid} IN
  IF hit = {} THEN st
  ELSE LET i == CHOOSE x \in hit : \A y \in hit : x <= y IN
       [g  |-> [st.g EXCEPT !.devices[i] = st.g.devices[st.g.ndevi - 1],
                            !.ndevi = @ - 1],
        os |-> sys_close(st.os, st.g.devices[i].fd)]

RECURSIVE scan_from(_, _)
scan_from(st, i) ==
  IF i >= DevSlots THEN st
  ELSE IF has_device_id(st.g, i) THEN scan_from(st, i + 1)
  ELSE LET r == open_device_filtered(st.g, st.os, i) IN
       IF r.fd < 0 THEN scan_from(st, i + 1)
       ELSE scan_from(add_device_fd([g |-> st.g, os |-> r.os], r.fd,
                                    IF r.devid >= 0 THEN r.devid ELSE i),
                      i + 1)

scan_devices(st) == scan_from(st, 0)

(* the Device Descriptors registered: the slots below g.ndevi *)
Registered(gg) ==
  {gg.devices[i] : i \in 0 .. Min(gg.ndevi, DevSlots) - 1}

(* the descriptors the registry currently holds *)
RegistryFds(gg) == {gg.devices[i].fd : i \in 0 .. gg.ndevi - 1}

(* ---------------------------------------------------------------------- *)
(* Threads at rest                                                         *)
(* ---------------------------------------------------------------------- *)
WNone == [pc |-> "none", evs |-> {}, dev |-> 0, fd |-> 0, devid |-> 0,
          ev |-> ZeroEvent, cbv |-> NULL, nsink |-> 0, nring |-> 0,
          hfd |-> -1, hid |-> -1,
          xst |-> 0, kev |-> ZeroKey, kcbv |-> NULL, r |-> "none"]
MNone == [pc |-> "none", have |-> 0, pkt |-> <<>>, todo |-> <<>>,
          ev |-> ZeroEvent, cbv |-> NULL, nsink |-> 0, nring |-> 0]
(* two more application threads, each to call ni_init(0) once: where the
   call stands, its result, and what it created or failed to create *)
Callers == {1, 2}
CallerIdle == [pc |-> "idle", ret |-> 0, ep |-> -1, thr |-> 0, oserr |-> FALSE]

(* the same threads as consumers of the ring: where a call of ni_poll
   stands, its max_events, its result and the events copied out *)
PollerIdle == [pc |-> "idle", max |-> 0, ret |-> 0, out |-> <<>>]

AppIdle == [pc |-> "idle", op |-> "none", max |-> 0, ret |-> 0,
            out |-> <<>>, tick |-> 0, calls |-> 0, i |-> 0, sfd |-> -1,
            cs |-> [c \in Callers |-> CallerIdle],
            ps |-> [c \in Callers |-> PollerIdle]]
DevIds == Nodes \cup {-2}            \* -2: pseudo id of the legacy pointer
(* the keymap configuration of the engine *)
KeymapConfig(gg) ==
  [enabled |-> gg.xkb_enabled, names |-> gg.xkb_names, state |-> gg.xkb_state]

Threads == {"worker", "mice"}
(* a Key Record as delivered: the record, the raw event of the delivering
   thread at that moment and how often that raw event had been delivered *)
NoKey == [kev |-> ZeroKey, base |-> ZeroEvent, raw |-> 0]
NoCall == [cb |-> NULL, user |-> NULL, ev |-> ZeroEvent]
HInit == [sinkTick |-> 0,                       \* flips at every sink invocation
          sinkSeen |-> [d \in DevIds |-> 0],    \* timestamp last handed to a sink
          sinkLast |-> NoCall,                  \* the last sink invocation
          pollSeen |-> [d \in DevIds |-> 0],    \* timestamp last returned by poll
          noffered |-> 0,                       \* events offered by the producer
          polls    |-> 0,                       \* successful polls, saturating at 2
          middrain |-> FALSE,                   \* last shutdown found the worker draining
          pre      |-> [reg |-> {}, nhot |-> 0, quiet |-> TRUE],
                                                \* registry at the last set_filter call
          owed     |-> [t \in Threads |-> 0],   \* raw KEY event delivered under the
                                                \* keymap, its Key Record not yet
          keyLast  |-> NoKey,                   \* the last Key Record delivered
          keySeen  |-> [d \in DevIds |-> 0],    \* timestamp of the last Key Record
          keyPollSeen |-> [d \in DevIds |-> 0], \* ... returned by ni_poll_key_events
          prevBtn  |-> 0,                       \* button byte of the last packet the
                                                \* legacy reader assembled
          flags    |-> 0,                       \* flags of the last call taking flags
          evts     |-> TRUE,                    \* the buffer of the last poll call
                                                \* was not NULL
          kpre     |-> KeymapConfig(GZero(1)),  \* keymap configuration at the last
                                                \* keymap call
          thrOk    |-> TRUE]                    \* the OS had a thread for the last
                                                \* ni_init that initialized

(* a sink is invoked with (f, user, ev) *)
SinkCalled(f, user, ev) ==
  [h EXCEPT !.sinkTick = 1 - @,
            !.sinkSeen[ev.device_id] = ev.timestamp_ns,
            !.sinkLast = [cb |-> f, user |-> user, ev |-> ev]]

(* the last timestamp of device d in a batch, or old if there is none *)
LastOf(out, d, old) ==
  LET idx == {i \in 1 .. Len(out) : out[i].device_id = d} IN
  IF idx = {} THEN old
  ELSE out[CHOOSE i \in idx : \A k \in idx : k <= i].timestamp_ns

(* the keymap is enabled, built, and not being reconfigured *)
KeymapOn(gg) ==
  gg.xkb_enabled # 0 /\ gg.xkb_state # 0 /\ app.pc \notin {"xkb", "names"}

(* thread t delivered ev on the raw stream *)
Owe(hh, t, ev) ==
  IF KeymapOn(g) /\ ev.type = "NI_EV_KEY" THEN [hh EXCEPT !.owed[t] = 1] ELSE hh

Alive == fault = "none"

(* the application thread is between two calls *)
CanCall == Alive /\ app.pc = "idle"

(* the application has calls left *)
Budget == app.calls < MaxCalls

(* an entry point returns to the application: app records the entry point,
   its result, the events it copied out and (for ni_poll) max_events; tick
   flips on every call, calls counts them up to MaxCalls *)
Returns(op, max, ret, out) ==
  app' = [pc |-> "idle", op |-> op, max |-> max, ret |-> ret, out |-> out,
          tick |-> 1 - app.tick, calls |-> Min(app.calls + 1, MaxCalls),
          i |-> 0, sfd |-> -1, cs |-> app.cs, ps |-> app.ps]

(* ---------------------------------------------------------------------- *)
(* Lifecycle entry points                                                  *)
(* ---------------------------------------------------------------------- *)
(* the part of ni_init after the flags and initialized tests *)
InitBody(thr_ok, mthr_ok) ==
  LET g0 == [GZero(Extent(g.queue)) EXCEPT !.mice_fd = -1]
      ep == sys_open(os, EpollObj)
      g1 == [g0 EXCEPT !.epoll_fd = ep.fd]
  IN
  IF ep.fd < 0
    THEN /\ g' = g1 /\ os' = os /\ UNCHANGED <<w, m>>
         /\ Returns("ni_init", 0, -1, <<>>)
    ELSE
      LET ino == sys_open(ep.os, InotifyObj)
          g2  == [g1 EXCEPT !.inotify_fd = ino.fd]
          o2  == IF ino.fd >= 0
                   THEN epoll_add(ino.os, ep.fd, ino.fd, EPOLL_DATA_INOTIFY)
                   ELSE ino.os
          st  == scan_devices([g |-> g2, os |-> o2])
          g3  == IF os.have_xkb
                   THEN [st.g EXCEPT !.stop = 0, !.xkb_names = DefaultNames(@)]
                   ELSE [st.g EXCEPT !.stop = 0]
      IN
      IF ~os.have_xkb \/ ~thr_ok
        THEN /\ g' = g3 /\ os' = st.os /\ UNCHANGED <<w, m>>
             /\ Returns("ni_init", 0, -1, <<>>)
        ELSE
          LET startm == g3.mice_enabled # 0 /\ mthr_ok
              g4 == [g3 EXCEPT !.thread = 1,
                               !.mice_thread = IF startm THEN 1 ELSE @,
                               !.mice_enabled =
                                  IF g3.mice_enabled # 0 /\ ~mthr_ok THEN 0 ELSE @,
                               !.initialized = 1]
          IN /\ g' = g4 /\ os' = st.os
             /\ w' = [WNone EXCEPT !.pc = "loop"]
             /\ m' = IF startm THEN [MNone EXCEPT !.pc = "start"] ELSE m
             /\ Returns("ni_init", 0, 0, <<>>)

(* an ni_init that reinitializes an engine that is already running *)
ni_init_again(flags) ==
  /\ CanCall
  /\ IF flags # 0
       THEN /\ Returns("ni_init", 0, -1, <<>>)
            /\ UNCHANGED <<g, os, w, m>>
       ELSE \E thr_ok \in BOOLEAN :
              /\ InitBody(thr_ok, TRUE)
              /\ h' = [h EXCEPT !.flags = flags, !.thrOk = thr_ok]
  /\ flags # 0 => h' = [h EXCEPT !.flags = flags]
  /\ UNCHANGED fault

ni_init(flags) ==
  /\ CanCall
  /\ IF flags # 0
       THEN /\ Returns("ni_init", 0, -1, <<>>)
            /\ h' = [h EXCEPT !.flags = flags]
            /\ UNCHANGED <<g, os, w, m>>
       ELSE IF g.initialized # 0
         THEN /\ Returns("ni_init", 0, 0, <<>>)
              /\ h' = [h EXCEPT !.flags = flags]
              /\ UNCHANGED <<g, os, w, m>>
         ELSE \E thr_ok \in BOOLEAN :
                /\ InitBody(thr_ok, TRUE)
                /\ h' = [h EXCEPT !.flags = flags, !.thrOk = thr_ok]
  /\ UNCHANGED fault

(* ni_shutdown up to the first join: the flag writes *)
ni_shutdown ==
  /\ CanCall
  /\ IF g.initialized = 0
       THEN /\ Returns("ni_shutdown", 0, 0, <<>>) /\ g' = g /\ h' = h
       ELSE /\ g' = [g EXCEPT !.stop = 1, !.mice_enabled = 0]
            /\ h' = [h EXCEPT !.middrain =
                                 w.pc \in {"read", "test", "call", "push"}]
            /\ app' = [app EXCEPT !.pc = "join_mice", !.op = "ni_shutdown",
                                  !.max = 0, !.ret = 0, !.out = <<>>,
                                  !.tick = 1 - @,
                                  !.calls = Min(@ + 1, MaxCalls)]
  /\ UNCHANGED <<os, w, m, fault>>

(* if (g.mice_thread) pthread_join(g.mice_thread) *)
shutdown_join_mice ==
  /\ Alive /\ app.pc = "join_mice"
  /\ IF g.mice_thread # 0
       THEN /\ m.pc = "done"
            /\ m' = [m EXCEPT !.pc = "none"]
       ELSE m' = m
  /\ app' = [app EXCEPT !.pc = "join_worker"]
  /\ UNCHANGED <<g, os, w, h, fault>>

(* pthread_join(g.thread) *)
shutdown_join_worker ==
  /\ Alive /\ app.pc = "join_worker"
  /\ w.pc = "done"
  /\ w' = [w EXCEPT !.pc = "none"]
  /\ app' = [app EXCEPT !.pc = "close"]
  /\ UNCHANGED <<g, os, m, h, fault>>

RECURSIVE close_devices(_, _, _)
close_devices(gg, o, i) ==
  IF i >= gg.ndevi THEN o
  ELSE close_devices(gg, sys_close(o, gg.devices[i].fd), i + 1)

(* a teardown that forgets the device handles *)
shutdown_close_leak ==
  /\ Alive /\ app.pc = "close"
  /\ LET o2 == IF g.inotify_fd >= 0 THEN sys_close(os, g.inotify_fd) ELSE os
     IN os' = sys_close(o2, g.epoll_fd)
  /\ g' = [g EXCEPT !.initialized = 0]
  /\ Returns("ni_shutdown", 0, 0, <<>>)
  /\ UNCHANGED <<w, m, h, fault>>

(* the closes of ni_shutdown, g.initialized = 0, return 0 *)
shutdown_close ==
  /\ Alive /\ app.pc = "close"
  /\ LET o1 == close_devices(g, os, 0)
         o2 == IF g.inotify_fd >= 0 THEN sys_close(o1, g.inotify_fd) ELSE o1
     IN os' = sys_close(o2, g.epoll_fd)
  /\ g' = [g EXCEPT !.initialized = 0]
  /\ Returns("ni_shutdown", 0, 0, <<>>)
  /\ UNCHANGED <<w, m, h, fault>>

(* ---------------------------------------------------------------------- *)
(* Raw stream entry points                                                 *)
(* ---------------------------------------------------------------------- *)
(* a register_callback that does not test g.initialized *)
ni_register_callback_always(cb, user_data, flags) ==
  /\ CanCall
  /\ IF flags # 0
       THEN /\ g' = g
            /\ Returns("ni_register_callback", 0, -1, <<>>)
       ELSE /\ g' = [g EXCEPT !.cb = cb, !.cb_user = user_data]
            /\ Returns("ni_register_callback", 0, 0, <<>>)
  /\ h' = [h EXCEPT !.flags = flags]
  /\ UNCHANGED <<os, w, m, fault>>

ni_register_callback(cb, user_data, flags) ==
  /\ CanCall
  /\ IF g.initialized = 0 \/ flags # 0
       THEN /\ g' = g
            /\ Returns("ni_register_callback", 0, -1, <<>>)
       ELSE /\ g' = [g EXCEPT !.cb = cb, !.cb_user = user_data]
            /\ Returns("ni_register_callback", 0, 0, <<>>)
  /\ h' = [h EXCEPT !.flags = flags]
  /\ UNCHANGED <<os, w, m, fault>>

(* an ni_poll that tests max_events only: neither the buffer nor the
   initialized flag *)
ni_poll_unchecked(evts, max_events) ==
  /\ CanCall
  /\ IF max_events <= 0
       THEN /\ g' = g /\ h' = [h EXCEPT !.evts = evts]
            /\ Returns("ni_poll", max_events, -1, <<>>)
       ELSE LET p == ring_pop_many(g.queue, max_events) IN
            /\ g' = [g EXCEPT !.queue = p.ring]
            /\ h' = [h EXCEPT !.polls = Min(@ + 1, 2), !.evts = evts,
                              !.pollSeen = [d \in DevIds |-> LastOf(p.out, d, @[d])]]
            /\ Returns("ni_poll", max_events, p.n, p.out)
  /\ UNCHANGED <<os, w, m, fault>>

(* ni_poll(evts, max_events); evts is TRUE for a valid buffer, FALSE for NULL *)
ni_poll(evts, max_events) ==
  /\ CanCall
  /\ IF g.initialized = 0 \/ ~evts \/ max_events <= 0
       THEN /\ g' = g /\ h' = [h EXCEPT !.evts = evts]
            /\ Returns("ni_poll", max_events, -1, <<>>)
       ELSE LET p == ring_pop_many(g.queue, max_events) IN
            /\ g' = [g EXCEPT !.queue = p.ring]
            /\ h' = [h EXCEPT !.polls = Min(@ + 1, 2), !.evts = evts,
                              !.pollSeen = [d \in DevIds |-> LastOf(p.out, d, @[d])]]
            /\ Returns("ni_poll", max_events, p.n, p.out)
  /\ UNCHANGED <<os, w, m, fault>>

(* ni_enable_mice(enabled) *)
ni_enable_mice(enabled) ==
  /\ CanCall
  /\ LET g1 == [g EXCEPT !.mice_enabled = IF enabled # 0 THEN 1 ELSE 0] IN
     IF g.initialized = 0 \/ enabled = 0 \/ g.mice_thread # 0
       THEN /\ g' = g1 /\ m' = m
            /\ Returns("ni_enable_mice", 0, 0, <<>>)
       ELSE \E thr_ok \in BOOLEAN :
            IF thr_ok
              THEN /\ g' = [g1 EXCEPT !.mice_thread = 1]
                   /\ m' = [MNone EXCEPT !.pc = "start"]
                   /\ Returns("ni_enable_mice", 0, 0, <<>>)
              ELSE /\ g' = [g1 EXCEPT !.mice_enabled = 0] /\ m' = m
                   /\ Returns("ni_enable_mice", 0, -1, <<>>)
  /\ UNCHANGED <<os, w, h, fault>>

(* ---------------------------------------------------------------------- *)
(* Acquisition worker: worker()                                            *)
(* ---------------------------------------------------------------------- *)
(* g.rescan_until_ns && tnow < g.rescan_until_ns: once the window is armed
   the clock may be on either side of its end *)
InWindow(gg) == IF gg.rescan_until_ns # 0 THEN {TRUE, FALSE} ELSE {FALSE}

(* while (!g.stop) { rescan inside the window; n = epoll_wait(g.epoll_fd,
   evs, MAX_EPOLL_EVENTS, 50); if (n <= 0) continue; ...                   *)
worker_loop ==
  /\ Alive /\ w.pc = "loop"
  /\ IF g.stop # 0
       THEN /\ w' = [w EXCEPT !.pc = "done"] /\ UNCHANGED <<g, os, fault>>
       ELSE \E inwindow \in InWindow(g) :
            LET st == IF inwindow
                        THEN scan_devices([g |-> g, os |-> os])
                        ELSE [g |-> g, os |-> os]
                ready == ReadyTags(st.os, st.g.epoll_fd)
            IN /\ g' = st.g /\ os' = st.os /\ fault' = FaultAfter(st.g)
               /\ IF ready = {}
                    THEN w' = w
                    ELSE \E evs \in SUBSET ready :
                           /\ Cardinality(evs) =
                                Min(Cardinality(ready), MAX_EPOLL_EVENTS)
                           /\ w' = [w EXCEPT !.pc = "next", !.evs = evs]
  /\ UNCHANGED <<m, app, h>>

(* for (i < n): the next ready tag; dev = evs[i].data.ptr; fd, devid *)
worker_next ==
  /\ Alive /\ w.pc = "next"
  /\ IF w.evs = {}
       THEN w' = [w EXCEPT !.pc = "loop"]
       ELSE \E t \in w.evs :
              IF t = EPOLL_DATA_INOTIFY
                THEN w' = [w EXCEPT !.evs = @ \ {t}, !.pc = "inotify"]
                ELSE w' = [w EXCEPT !.evs = @ \ {t}, !.pc = "read", !.dev = t,
                                    !.fd = g.devices[t].fd,
                                    !.devid = g.devices[t].id]
  /\ UNCHANGED <<g, os, m, app, h, fault>>

(* the numeric value of a code of the OS key code space: "K" is KEY_A, the
   buttons are BTN_LEFT, BTN_RIGHT, BTN_MIDDLE *)
EvdevCode(code) ==
  CASE code = "K" -> 30
    [] code = "NI_BTN_LEFT" -> 272
    [] code = "NI_BTN_RIGHT" -> 273
    [] code = "NI_BTN_MIDDLE" -> 274
    [] OTHER -> 0

(* a decode that hands out the code in the keymap's code space (code + 8,
   the code of KEY_L for KEY_A) while the keymap is enabled *)
decode_keymap(devid, iev) ==
  [ZeroEvent EXCEPT !.device_id = devid, !.type = iev.type,
                    !.code = IF g.xkb_enabled # 0 /\ EvdevCode(iev.code) + 8 = 38
                               THEN "KEY_L" ELSE iev.code,
                    !.value = iev.value,
                    !.timestamp_ns = iev.sec * 1000000000 + iev.usec * 1000]

(* decode of one struct input_event into a struct ni_event *)
decode(devid, iev) ==
  [ZeroEvent EXCEPT !.device_id = devid, !.type = iev.type, !.code = iev.code,
                    !.value = iev.value,
                    !.timestamp_ns = iev.sec * 1000000000 + iev.usec * 1000]

(* what read(fd, &iev, sizeof iev) gives: "err" for r < 0 with an errno
   other than EAGAIN (EBADF on a closed handle, ENODEV on an unplugged
   node), "again" for EAGAIN on an empty queue, "ok" for one record *)
ReadResult(o, fd) ==
  IF ~(IsOpen(o, fd) /\ o.fds[fd].kind = "dev" /\ o.fds[fd].node \in o.present)
    THEN "err"
    ELSE IF o.fds[fd].q = <<>> THEN "again" ELSE "ok"

(* a read loop that gives up the device on a read error: the descriptor is
   removed and the rest of the wake is dropped *)
worker_read_drop ==
  /\ Alive /\ w.pc = "read"
  /\ LET r == ReadResult(os, w.fd) IN
     IF r = "ok"
       THEN /\ os' = [os EXCEPT !.fds[w.fd].q = Tail(@)]
            /\ g' = g
            /\ w' = [w EXCEPT !.pc = "test", !.nsink = 0, !.nring = 0, !.r = r,
                              !.ev = decode(w.devid, Head(os.fds[w.fd].q))]
       ELSE IF r = "err"
         THEN LET st == remove_device_by_id([g |-> g, os |-> os], w.devid) IN
              /\ g' = st.g /\ os' = st.os
              /\ w' = [w EXCEPT !.pc = "next", !.r = r, !.evs = {}]
         ELSE /\ os' = os /\ g' = g
              /\ w' = [w EXCEPT !.pc = "next", !.r = r]
  /\ UNCHANGED <<m, app, h, fault>>

(* r = read(fd, &iev, sizeof iev); break on error, would-block, short read *)
worker_read ==
  /\ Alive /\ w.pc = "read"
  /\ LET r == ReadResult(os, w.fd) IN
     IF r = "ok"
       THEN /\ os' = [os EXCEPT !.fds[w.fd].q = Tail(@)]
            /\ w' = [w EXCEPT !.pc = "test", !.nsink = 0, !.nring = 0, !.r = r,
                              !.ev = decode(w.devid, Head(os.fds[w.fd].q))]
       ELSE /\ os' = os
            /\ w' = [w EXCEPT !.pc = "next", !.r = r]
  /\ UNCHANGED <<g, m, app, h, fault>>

(* a dispatch that queues whether or not a sink is registered *)
worker_test_queue ==
  /\ Alive /\ w.pc = "test"
  /\ w' = [w EXCEPT !.cbv = g.cb, !.pc = "push"]
  /\ UNCHANGED <<g, os, m, app, h, fault>>

(* if (g.cb) ... else ... : the test of the sink pointer *)
worker_test ==
  /\ Alive /\ w.pc = "test"
  /\ w' = [w EXCEPT !.cbv = g.cb,
                    !.pc = IF g.cb # NULL THEN "call" ELSE "push"]
  /\ UNCHANGED <<g, os, m, app, h, fault>>

(* maybe_emit_key_event(&ne): if (!g.xkb_enabled) return; *)
AfterDispatch == IF g.xkb_enabled # 0 THEN "key" ELSE "read"

(* g.cb(&ev, g.cb_user): the pointer is the one tested or a fresh load; then
   the first test of maybe_emit_key_event *)
worker_call ==
  /\ Alive /\ w.pc = "call"
  /\ \E f \in {w.cbv, g.cb} :
       IF f = NULL
         THEN /\ fault' = "null_call"
              /\ w' = [w EXCEPT !.pc = "crashed"]
              /\ h' = h
         ELSE /\ fault' = fault
              /\ h' = Owe(SinkCalled(f, g.cb_user, w.ev), "worker", w.ev)
              /\ w' = [w EXCEPT !.pc = AfterDispatch, !.nsink = @ + 1]
  /\ UNCHANGED <<g, os, m, app>>

(* ring_push(&g.queue, &ev), then the first test of maybe_emit_key_event *)
worker_push ==
  /\ Alive /\ w.pc = "push"
  /\ g' = [g EXCEPT !.queue = ring_push(@, w.ev)]
  /\ w' = [w EXCEPT !.pc = AfterDispatch, !.nring = @ + 1]
  /\ h' = Owe(h, "worker", w.ev)
  /\ UNCHANGED <<os, m, app, fault>>

(* ---------------------------------------------------------------------- *)
(* Legacy pointer reader: mice_worker()                                    *)
(* ---------------------------------------------------------------------- *)
SignedChar(b) == IF b >= 128 THEN b - 256 ELSE b
Bit(b, k) == (b \div k) % 2

MouseEvent(ts, extra, value) ==
  [ZeroEvent EXCEPT !.device_id = -2, !.timestamp_ns = ts,
                    !.type = "NI_EV_MOUSE", !.code = "NI_MOUSE_BUTTON",
                    !.extra = extra, !.value = value]
BaseEvent(ts, type, code, value) ==
  [ZeroEvent EXCEPT !.device_id = -2, !.timestamp_ns = ts,
                    !.type = type, !.code = code, !.value = value]

(* the events emitted for one assembled packet pkt[0..2], in emission order *)
mice_events(pkt, ts) ==
  LET btn == pkt[1]
      dx  == SignedChar(pkt[2])
      dy  == SignedChar(pkt[3])
  IN << BaseEvent(ts, "NI_EV_KEY", "NI_BTN_LEFT", Bit(btn, 1)),
        BaseEvent(ts, "NI_EV_KEY", "NI_BTN_RIGHT", Bit(btn, 2)),
        BaseEvent(ts, "NI_EV_KEY", "NI_BTN_MIDDLE", Bit(btn, 4)),
        MouseEvent(ts, 1, Bit(btn, 1)),
        MouseEvent(ts, 2, Bit(btn, 2)),
        MouseEvent(ts, 3, Bit(btn, 4)),
        BaseEvent(ts, "NI_EV_REL", "NI_REL_X", dx),
        BaseEvent(ts, "NI_EV_REL", "NI_REL_Y", -dy) >>
     \o (IF dx # 0 \/ dy # 0
           THEN << [ZeroEvent EXCEPT !.device_id = -2, !.timestamp_ns = ts,
                                     !.type = "NI_EV_MOUSE",
                                     !.code = "NI_MOUSE_MOVE",
                                     !.x = dx, !.y = -dy] >>
           ELSE << >>)
     \o (IF Len(pkt) >= 4
           THEN << BaseEvent(ts, "NI_EV_REL", "NI_REL_WHEEL", SignedChar(pkt[4])) >>
           ELSE << >>)

(* now_ns(): the monotonic clock; it has advanced with every packet *)
now_ns(o) == o.nmice * 1000

(* if (g.mice_fd < 0) open("/dev/input/mice") *)
mice_start ==
  /\ Alive /\ m.pc = "start"
  /\ IF g.mice_fd < 0
       THEN LET r == sys_open(os, MiceObj) IN
            /\ os' = r.os
            /\ g' = [g EXCEPT !.mice_fd = r.fd]
            /\ m' = [m EXCEPT !.pc = IF r.fd < 0 THEN "done" ELSE "loop"]
       ELSE /\ UNCHANGED <<g, os>>
            /\ m' = [m EXCEPT !.pc = "loop"]
  /\ UNCHANGED <<w, app, h, fault>>

(* while (!g.stop && g.mice_enabled) *)
mice_loop ==
  /\ Alive /\ m.pc = "loop"
  /\ m' = [m EXCEPT !.pc = IF g.stop = 0 /\ g.mice_enabled # 0
                             THEN "read" ELSE "exit"]
  /\ UNCHANGED <<g, os, w, app, h, fault>>

(* the byte loop over one read(): bytes accumulate in pkt until have >= 3;
   todo holds the events of the packets completed by this read *)
RECURSIVE mice_bytes(_, _, _, _)
mice_bytes(buf, pkt, todo, ts) ==
  IF buf = <<>> THEN [pkt |-> pkt, todo |-> todo]
  ELSE LET p == Append(pkt, Head(buf)) IN
       IF Len(p) >= 3
         THEN mice_bytes(Tail(buf), <<>>, todo \o mice_events(p, ts), ts)
         ELSE mice_bytes(Tail(buf), p, todo, ts)

(* pkt[0] of the last packet assembled from the bytes all, or old *)
LastBtn(all, old) ==
  IF Len(all) < 3 THEN old ELSE all[3 * (Len(all) \div 3 - 1) + 1]

(* r = read(g.mice_fd, buf, 8) *)
mice_read ==
  /\ Alive /\ m.pc = "read"
  /\ IF IsOpen(os, g.mice_fd) /\ os.fds[g.mice_fd].kind = "mice"
       THEN IF os.fds[g.mice_fd].q = <<>>
              THEN /\ os' = os /\ m' = [m EXCEPT !.pc = "loop"] /\ h' = h
              ELSE LET q == os.fds[g.mice_fd].q
                       r == Min(8, Len(q))
                       b == mice_bytes(SubSeq(q, 1, r), m.pkt, <<>>, now_ns(os))
                   IN /\ os' = [os EXCEPT !.fds[g.mice_fd].q =
                                                 SubSeq(q, r + 1, Len(q))]
                      /\ m' = [m EXCEPT !.pc = "emit", !.pkt = b.pkt,
                                        !.have = Len(b.pkt), !.todo = b.todo]
                      /\ h' = [h EXCEPT !.prevBtn =
                                 LastBtn(m.pkt \o SubSeq(q, 1, r), @)]
       ELSE /\ os' = os /\ m' = [m EXCEPT !.pc = "exit"] /\ h' = h
  /\ UNCHANGED <<g, w, app, fault>>

(* emit_or_queue(&ev): the test of the sink pointer *)
mice_emit ==
  /\ Alive /\ m.pc = "emit"
  /\ IF m.todo = <<>>
       THEN m' = [m EXCEPT !.pc = "loop"]
       ELSE m' = [m EXCEPT !.ev = Head(m.todo), !.todo = Tail(m.todo),
                           !.cbv = g.cb, !.nsink = 0, !.nring = 0,
                           !.pc = IF g.cb # NULL THEN "call" ELSE "push"]
  /\ UNCHANGED <<g, os, w, app, h, fault>>

(* emit_or_queue: g.cb(ev, g.cb_user) *)
mice_call ==
  /\ Alive /\ m.pc = "call"
  /\ \E f \in {m.cbv, g.cb} :
       IF f = NULL
         THEN /\ fault' = "null_call"
              /\ m' = [m EXCEPT !.pc = "crashed"]
              /\ h' = h
         ELSE /\ fault' = fault
              /\ h' = Owe(SinkCalled(f, g.cb_user, m.ev), "mice", m.ev)
              /\ m' = [m EXCEPT !.pc = "emit", !.nsink = @ + 1]
  /\ UNCHANGED <<g, os, w, app>>

(* emit_or_queue: ring_push(&g.queue, ev) *)
mice_push ==
  /\ Alive /\ m.pc = "push"
  /\ g' = [g EXCEPT !.queue = ring_push(@, m.ev)]
  /\ m' = [m EXCEPT !.pc = "emit", !.nring = @ + 1]
  /\ h' = Owe(h, "mice", m.ev)
  /\ UNCHANGED <<os, w, app, fault>>

(* if (g.mice_fd >= 0) { close(g.mice_fd); g.mice_fd = -1; } return *)
mice_exit ==
  /\ Alive /\ m.pc = "exit"
  /\ IF g.mice_fd >= 0
       THEN /\ os' = sys_close(os, g.mice_fd)
            /\ g' = [g EXCEPT !.mice_fd = -1]
       ELSE UNCHANGED <<g, os>>
  /\ m' = [m EXCEPT !.pc = "done"]
  /\ UNCHANGED <<w, app, h, fault>>

(* ---------------------------------------------------------------------- *)
(* Environment: the OS produces input                                      *)
(* ---------------------------------------------------------------------- *)
(* the packet number k of a node: press, release, press, ... stamped by the
   kernel with a time that grows with k *)
PacketAt(k) ==
  [type |-> "NI_EV_KEY", code |-> "K", value |-> k % 2, sec |-> 0, usec |-> k]

(* the open descriptions of kind on node n *)
Listeners(kind, n) ==
  {fd \in Fds : os.fds[fd].kind = kind /\ os.fds[fd].node = n}

RECURSIVE SumTo(_, _)
SumTo(f, n) == IF n < 0 THEN 0 ELSE f[n] + SumTo(f, n - 1)

(* node n produces its next packet: queued on every open handle of n *)
Produce(n) ==
  /\ Alive /\ SumTo(os.nprod, NumNodes - 1) < MaxPkts
  /\ n \in os.present /\ Listeners("dev", n) # {}
  /\ os' = [os EXCEPT !.nprod[n] = @ + 1,
                      !.fds = [fd \in Fds |->
                                 IF fd \in Listeners("dev", n)
                                   THEN [@[fd] EXCEPT !.q =
                                           Append(@, PacketAt(os.nprod[n] + 1))]
                                   ELSE @[fd]]]
  /\ UNCHANGED <<g, w, m, app, h, fault>>

(* a three-byte packet on the legacy pointer stream *)
MiceInput(btn, dx, dy) ==
  /\ Alive /\ os.nmice < MaxMice /\ Listeners("mice", -1) # {}
  /\ os.mproto = 3
  /\ os' = [os EXCEPT !.nmice = @ + 1,
                      !.fds = [fd \in Fds |->
                                 IF fd \in Listeners("mice", -1)
                                   THEN [@[fd] EXCEPT !.q = @ \o <<btn, dx, dy>>]
                                   ELSE @[fd]]]
  /\ UNCHANGED <<g, w, m, app, h, fault>>

(* a four-byte packet (buttons, dx, dy, wheel) on the legacy pointer stream *)
MiceInput4(btn, dx, dy, dz) ==
  /\ Alive /\ os.nmice < MaxMice /\ Listeners("mice", -1) # {}
  /\ os.mproto = 4
  /\ os' = [os EXCEPT !.nmice = @ + 1,
                      !.fds = [fd \in Fds |->
                                 IF fd \in Listeners("mice", -1)
                                   THEN [@[fd] EXCEPT !.q = @ \o <<btn, dx, dy, dz>>]
                                   ELSE @[fd]]]
  /\ UNCHANGED <<g, w, m, app, h, fault>>

(* ---------------------------------------------------------------------- *)
(* Hotplug: the notifier, handle_inotify_event(), and the OS side          *)
(* ---------------------------------------------------------------------- *)
(* g.rescan_until_ns = now_ns() + 3 s, kept in milliseconds *)
RescanUntil(o) == now_ns(o) \div 1000000 + 3000

(* one struct inotify_event of the buffer read from g.inotify_fd: a create
   of eventN opens the node (arming the rescan window when that fails), a
   delete of eventN removes the descriptor with id N *)
worker_inotify ==
  /\ Alive /\ w.pc = "inotify"
  /\ IF /\ IsOpen(os, g.inotify_fd) /\ os.fds[g.inotify_fd].kind = "inotify"
        /\ os.fds[g.inotify_fd].q # <<>>
       THEN LET ie == Head(os.fds[g.inotify_fd].q)
                o1 == [os EXCEPT !.fds[g.inotify_fd].q = Tail(@)]
            IN IF ie.mask = "IN_CREATE"
                 THEN LET r == open_device_filtered(g, o1, ie.n) IN
                      IF r.fd >= 0
                        THEN /\ os' = r.os /\ g' = g
                             /\ w' = [w EXCEPT !.pc = "ino_add", !.hfd = r.fd,
                                               !.hid = r.devid]
                        ELSE /\ os' = r.os /\ w' = w
                             /\ g' = [g EXCEPT !.rescan_until_ns = RescanUntil(o1)]
                 ELSE LET st == remove_device_by_id([g |-> g, os |-> o1], ie.n) IN
                      /\ g' = st.g /\ os' = st.os /\ w' = w
       ELSE /\ w' = [w EXCEPT !.pc = "next"]
            /\ UNCHANGED <<g, os>>
  /\ UNCHANGED <<m, app, h, fault>>

(* add_device_fd(fd, devid, path) of the create branch *)
worker_ino_add ==
  /\ Alive /\ w.pc = "ino_add"
  /\ LET st == add_device_fd([g |-> g, os |-> os], w.hfd, w.hid) IN
     /\ g' = st.g /\ os' = st.os /\ fault' = FaultAfter(st.g)
  /\ w' = [w EXCEPT !.pc = "inotify"]
  /\ UNCHANGED <<m, app, h>>

(* a notification is queued on every open notifier *)
Notify(o, mask, n) ==
  [fd \in Fds |->
     IF o.fds[fd].kind = "inotify"
       THEN [o.fds[fd] EXCEPT !.q = Append(@, [mask |-> mask, n |-> n])]
       ELSE o.fds[fd]]

(* udev creates /dev/input/event<n> *)
CreateNode(n) ==
  /\ Alive /\ os.nhot < MaxHot /\ n \notin os.present
  /\ os' = [os EXCEPT !.present = @ \cup {n}, !.nhot = @ + 1,
                      !.fds = Notify(os, "IN_CREATE", n)]
  /\ UNCHANGED <<g, w, m, app, h, fault>>

(* /dev/input/event<n> is unplugged *)
DeleteNode(n) ==
  /\ Alive /\ os.nhot < MaxHot /\ n \in os.present
  /\ os' = [os EXCEPT !.present = @ \ {n}, !.nhot = @ + 1,
                      !.fds = Notify(os, "IN_DELETE", n)]
  /\ UNCHANGED <<g, w, m, app, h, fault>>

(* ---------------------------------------------------------------------- *)
(* Registry entry points: ni_set_device_filter, ni_device_count            *)
(* ---------------------------------------------------------------------- *)
(* the predicates an application installs: NULL, or acceptance by node *)
FilterOf(accept) == [fn |-> TRUE, accept |-> accept]

(* keep = g.filter ? g.filter(&info, g.filter_user) : 1 *)
keep(gg, dev) == ~gg.filter.fn \/ dev.id \in gg.filter.accept

(* for (i = g.ndevi - 1; i >= 0; i--): a rejected slot is unregistered,
   closed and overwritten by the last slot *)
RECURSIVE filter_close(_, _)
filter_close(st, i) ==
  IF i < 0 THEN st
  ELSE IF keep(st.g, st.g.devices[i]) THEN filter_close(st, i - 1)
  ELSE filter_close(
         [g  |-> [st.g EXCEPT !.devices[i] = st.g.devices[st.g.ndevi - 1],
                              !.ndevi = @ - 1],
          os |-> sys_close(st.os, st.g.devices[i].fd)],
         i - 1)

(* no notification is pending or being handled, no rescan window is armed *)
HotplugQuiet ==
  /\ w.pc \notin {"inotify", "ino_add"}
  /\ g.rescan_until_ns = 0
  /\ \A fd \in Fds : os.fds[fd].kind = "inotify" => os.fds[fd].q = <<>>

(* ni_set_device_filter up to the end of the locked loop *)
ni_set_device_filter(filter, user_data) ==
  /\ CanCall
  /\ LET g1 == [g EXCEPT !.filter = filter, !.filter_user = user_data] IN
     IF g.initialized = 0
       THEN /\ g' = g1 /\ os' = os /\ h' = h
            /\ Returns("ni_set_device_filter", 0, 0, <<>>)
       ELSE LET st == filter_close([g |-> g1, os |-> os], g1.ndevi - 1) IN
            /\ g' = st.g /\ os' = st.os
            /\ h' = [h EXCEPT !.pre = [reg |-> Registered(g), nhot |-> os.nhot,
                                       quiet |-> HotplugQuiet]]
            /\ app' = [app EXCEPT !.pc = "scan", !.op = "ni_set_device_filter",
                                  !.max = 0, !.ret = 0, !.out = <<>>,
                                  !.tick = 1 - @,
                                  !.calls = Min(@ + 1, MaxCalls),
                                  !.i = 0, !.sfd = -1]
  /\ UNCHANGED <<w, m, fault>>

(* scan_devices() run by ni_set_device_filter, one node per step: the test
   has_device_id(i) and open_device_filtered; return 0 after the last node *)
set_filter_scan ==
  /\ Alive /\ app.pc = "scan"
  /\ IF app.i >= DevSlots
       THEN /\ Returns("ni_set_device_filter", 0, 0, <<>>)
            /\ UNCHANGED <<g, os>>
       ELSE IF has_device_id(g, app.i)
         THEN /\ app' = [app EXCEPT !.i = @ + 1]
              /\ UNCHANGED <<g, os>>
         ELSE LET r == open_device_filtered(g, os, app.i) IN
              /\ os' = r.os /\ g' = g
              /\ app' = IF r.fd < 0 THEN [app EXCEPT !.i = @ + 1]
                        ELSE [app EXCEPT !.pc = "scan_add", !.sfd = r.fd]
  /\ UNCHANGED <<w, m, h, fault>>

(* add_device_fd(fd, devid, path) of that scan *)
set_filter_add ==
  /\ Alive /\ app.pc = "scan_add"
  /\ LET st == add_device_fd([g |-> g, os |-> os], app.sfd, app.i) IN
     /\ g' = st.g /\ os' = st.os /\ fault' = FaultAfter(st.g)
  /\ app' = [app EXCEPT !.pc = "scan", !.i = @ + 1, !.sfd = -1]
  /\ UNCHANGED <<w, m, h>>

(* ni_device_count(): g.ndevi read under the registry lock *)
ni_device_count ==
  /\ CanCall
  /\ Returns("ni_device_count", 0, g.ndevi, <<>>)
  /\ UNCHANGED <<g, os, w, m, h, fault>>

(* ---------------------------------------------------------------------- *)
(* Keymap layer: ni_enable_xkb(), maybe_emit_key_event(), the key stream   *)
(* ---------------------------------------------------------------------- *)
KeySinks == {"K1"}

(* xkb_state_key_get_one_sym / xkb_state_key_get_utf8 under the default
   names (evdev, pc105, us): keymap code 38 is the key "a" *)
xkb_keysym(xcode) == IF xcode = 38 THEN 97 ELSE 0
xkb_utf8(xcode) == IF xcode = 38 THEN "a" ELSE ""

(* xkb_state_update_key(state, xkb_code, direction) *)
xkb_update(s, xcode, value) ==
  [s EXCEPT !.down = IF value # 0 THEN @ \cup {xcode} ELSE @ \ {xcode}]

(* mods_mask_from_state(): Shift, Control, Alt, Logo *)
mods_mask_from_state(s) ==
    (IF s.down \cap {50, 62} # {} THEN 1 ELSE 0)
  + (IF s.down \cap {37, 105} # {} THEN 2 ELSE 0)
  + (IF s.down \cap {64, 108} # {} THEN 4 ELSE 0)
  + (IF s.down \cap {133, 134} # {} THEN 8 ELSE 0)

(* the Key Record maybe_emit_key_event builds for base against state s,
   after the state has taken the transition *)
key_event(base, s) ==
  LET xkb_code == EvdevCode(base.code) + 8
      down == IF base.value # 0 THEN 1 ELSE 0
  IN [ZeroKey EXCEPT !.device_id = base.device_id,
                     !.timestamp_ns = base.timestamp_ns,
                     !.down = down,
                     !.mods = mods_mask_from_state(s),
                     !.keysym = xkb_keysym(xkb_code),
                     !.text = IF down = 1 THEN xkb_utf8(xkb_code) ELSE ""]

(* xkb_state_unref(s) of the last reference *)
xkb_unref(o, s) == IF s = 0 THEN o ELSE [o EXCEPT !.xkb[s].live = FALSE]

(* rebuild_xkb_keymap(): ok tells whether the library built the keymap and
   its state *)
rebuild_xkb_keymap(st, ok) ==
  IF ~st.os.have_xkb THEN [g |-> st.g, os |-> st.os, ret |-> -1]
  ELSE IF st.g.xkb_enabled = 0 THEN [g |-> st.g, os |-> st.os, ret |-> 0]
  ELSE IF ~ok \/ st.os.nxkb >= MaxXkb THEN [g |-> st.g, os |-> st.os, ret |-> -1]
  ELSE LET s  == st.os.nxkb + 1
           o1 == [st.os EXCEPT !.nxkb = s, !.xkb[s] = [live |-> TRUE, down |-> {},
                                             names |-> st.g.xkb_names]]
       IN [g |-> [st.g EXCEPT !.xkb_state = s],
           os |-> xkb_unref(o1, st.g.xkb_state), ret |-> 0]

(* ni_enable_xkb(enabled): the store to g.xkb_enabled *)
ni_enable_xkb(enabled) ==
  /\ CanCall
  /\ g' = [g EXCEPT !.xkb_enabled = IF enabled # 0 THEN 1 ELSE 0]
  /\ app' = [app EXCEPT !.pc = "xkb", !.op = "ni_enable_xkb", !.max = 0,
                        !.ret = 0, !.out = <<>>, !.tick = 1 - @,
                        !.calls = Min(@ + 1, MaxCalls)]
  /\ h' = [h EXCEPT !.owed = [t \in Threads |-> 0], !.kpre = KeymapConfig(g)]
  /\ UNCHANGED <<os, w, m, fault>>

(* ni_enable_xkb: the rebuild when enabling, the release when disabling *)
enable_xkb_apply ==
  /\ Alive /\ app.pc = "xkb"
  /\ IF ~os.have_xkb
       THEN /\ UNCHANGED <<g, os>>
            /\ app' = [app EXCEPT !.pc = "idle", !.ret = -1]
     ELSE IF g.xkb_enabled # 0
       THEN \E ok \in BOOLEAN :
              LET r == rebuild_xkb_keymap([g |-> g, os |-> os], ok) IN
              /\ g' = r.g /\ os' = r.os
              /\ app' = [app EXCEPT !.pc = "idle", !.ret = r.ret]
       ELSE /\ os' = xkb_unref(os, g.xkb_state)
            /\ g' = [g EXCEPT !.xkb_state = 0]
            /\ app' = [app EXCEPT !.pc = "idle", !.ret = 0]
  /\ UNCHANGED <<w, m, h, fault>>

(* snprintf(g.xkb_x, sizeof g.xkb_x, "%s", x) for each argument that is not
   NULL; the names of the model fit their buffers *)
set_names(nm, rules, model, layout, variant, options) ==
  [rules   |-> IF rules # NULL THEN rules ELSE nm.rules,
   model   |-> IF model # NULL THEN model ELSE nm.model,
   layout  |-> IF layout # NULL THEN layout ELSE nm.layout,
   variant |-> IF variant # NULL THEN variant ELSE nm.variant,
   options |-> IF options # NULL THEN options ELSE nm.options]

(* ni_set_xkb_names(rules, model, layout, variant, options): the stores *)
ni_set_xkb_names(rules, model, layout, variant, options) ==
  /\ CanCall
  /\ g' = IF os.have_xkb
            THEN [g EXCEPT !.xkb_names =
                             set_names(@, rules, model, layout, variant, options)]
            ELSE g
  /\ app' = [app EXCEPT !.pc = "names", !.op = "ni_set_xkb_names", !.max = 0,
                        !.ret = 0, !.out = <<>>, !.tick = 1 - @,
                        !.calls = Min(@ + 1, MaxCalls)]
  /\ h' = [h EXCEPT !.owed = [t \in Threads |-> 0], !.kpre = KeymapConfig(g)]
  /\ UNCHANGED <<os, w, m, fault>>

(* ni_set_xkb_names: if (g.xkb_enabled) return rebuild_xkb_keymap(); return 0 *)
set_xkb_names_apply ==
  /\ Alive /\ app.pc = "names"
  /\ \E ok \in BOOLEAN :
       LET r == rebuild_xkb_keymap([g |-> g, os |-> os], ok) IN
       /\ g' = r.g /\ os' = r.os
       /\ app' = [app EXCEPT !.pc = "idle",
                             !.ret = IF os.have_xkb THEN r.ret ELSE -1]
  /\ UNCHANGED <<w, m, h, fault>>

(* ni_register_key_callback(cb, user_data, flags): flags is not looked at *)
ni_register_key_callback(cb, user_data, flags) ==
  /\ CanCall
  /\ IF g.initialized = 0
       THEN /\ g' = g
            /\ Returns("ni_register_key_callback", 0, -1, <<>>)
       ELSE /\ g' = [g EXCEPT !.key_cb = cb, !.key_cb_user = user_data]
            /\ Returns("ni_register_key_callback", 0, 0, <<>>)
  /\ h' = [h EXCEPT !.flags = flags]
  /\ UNCHANGED <<os, w, m, fault>>

keyring_push(r, kev) == ring_push(r, kev)

(* a keyring_pop_many that hands out the newest record first *)
keyring_pop_many_lifo(r, max) == ring_pop_many_lifo(r, max)

keyring_pop_many(r, max) == ring_pop_many(r, max)

(* ni_poll_key_events(evts, max_events) *)
ni_poll_key_events(evts, max_events) ==
  /\ CanCall
  /\ IF g.initialized = 0 \/ ~evts \/ max_events <= 0
       THEN /\ g' = g /\ h' = [h EXCEPT !.evts = evts]
            /\ Returns("ni_poll_key_events", max_events, -1, <<>>)
       ELSE LET p == keyring_pop_many(g.key_queue, max_events) IN
            /\ g' = [g EXCEPT !.key_queue = p.ring]
            /\ h' = [h EXCEPT !.evts = evts, !.keyPollSeen =
                                [d \in DevIds |-> LastOf(p.out, d, @[d])]]
            /\ Returns("ni_poll_key_events", max_events, p.n, p.out)
  /\ UNCHANGED <<os, w, m, fault>>

(* a Key Record reaches the key sink or the key ring *)
KeyDelivered(hh, t, kev, base, raw) ==
  [hh EXCEPT !.owed[t] = 0,
             !.keyLast = [kev |-> kev, base |-> base, raw |-> raw],
             !.keySeen[kev.device_id] = kev.timestamp_ns]

(* maybe_emit_key_event: if (base->type != NI_EV_KEY) return;
   xkb_code = code + 8; if (g.xkb_state) ... : the load of the pointer *)
worker_key ==
  /\ Alive /\ w.pc = "key"
  /\ w' = IF ~os.have_xkb \/ w.ev.type # "NI_EV_KEY" \/ g.xkb_state = 0
            THEN [w EXCEPT !.pc = "read"]
            ELSE [w EXCEPT !.pc = "keyuse", !.xst = g.xkb_state]
  /\ UNCHANGED <<g, os, m, app, h, fault>>

(* xkb_state_update_key ... xkb_state_key_get_utf8 on the loaded state, then
   if (g.key_cb) ... else keyring_push(&g.key_queue, &kev). A state the
   caller has released meanwhile is a use after free: the process faults or
   the stale memory is used as it was. *)
worker_key_use ==
  /\ Alive /\ w.pc = "keyuse"
  /\ \E crash \in IF os.xkb[w.xst].live THEN {FALSE} ELSE {FALSE, TRUE} :
       IF crash
         THEN /\ fault' = "xkb_use_after_free"
              /\ w' = [w EXCEPT !.pc = "crashed"]
              /\ UNCHANGED <<g, os, h>>
         ELSE LET s   == xkb_update(os.xkb[w.xst], EvdevCode(w.ev.code) + 8,
                                    w.ev.value)
                  kev == key_event(w.ev, s)
              IN /\ os' = [os EXCEPT !.xkb[w.xst] = s]
                 /\ fault' = fault
                 /\ IF g.key_cb # NULL
                      THEN /\ w' = [w EXCEPT !.pc = "keycall", !.kev = kev,
                                             !.kcbv = g.key_cb]
                           /\ UNCHANGED <<g, h>>
                      ELSE /\ g' = [g EXCEPT !.key_queue = keyring_push(@, kev)]
                           /\ h' = KeyDelivered(h, "worker", kev, w.ev,
                                                w.nsink + w.nring)
                           /\ w' = [w EXCEPT !.pc = "read", !.kev = kev]
  /\ UNCHANGED <<m, app>>

(* g.key_cb(&kev, g.key_cb_user): the pointer tested or a fresh load *)
worker_key_call ==
  /\ Alive /\ w.pc = "keycall"
  /\ \E f \in {w.kcbv, g.key_cb} :
       IF f = NULL
         THEN /\ fault' = "null_call"
              /\ w' = [w EXCEPT !.pc = "crashed"]
              /\ h' = h
         ELSE /\ fault' = fault
              /\ h' = KeyDelivered(h, "worker", w.kev, w.ev, w.nsink + w.nring)
              /\ w' = [w EXCEPT !.pc = "read"]
  /\ UNCHANGED <<g, os, m, app>>

(* ---------------------------------------------------------------------- *)
(* The sink call in two steps: entry into the sink, return from it         *)
(* ---------------------------------------------------------------------- *)
(* the worker enters g.cb(&ev, g.cb_user) *)
worker_call_enter ==
  /\ Alive /\ w.pc = "call"
  /\ \E f \in {w.cbv, g.cb} :
       IF f = NULL
         THEN /\ fault' = "null_call"
              /\ w' = [w EXCEPT !.pc = "crashed"]
              /\ h' = h
         ELSE /\ fault' = fault
              /\ h' = Owe(SinkCalled(f, g.cb_user, w.ev), "worker", w.ev)
              /\ w' = [w EXCEPT !.pc = "insink", !.nsink = @ + 1]
  /\ UNCHANGED <<g, os, m, app>>

(* the sink returns to the worker; maybe_emit_key_event follows *)
worker_call_return ==
  /\ Alive /\ w.pc = "insink"
  /\ w' = [w EXCEPT !.pc = AfterDispatch]
  /\ UNCHANGED <<g, os, m, app, h, fault>>

(* the legacy reader enters g.cb(ev, g.cb_user) in emit_or_queue *)
mice_call_enter ==
  /\ Alive /\ m.pc = "call"
  /\ \E f \in {m.cbv, g.cb} :
       IF f = NULL
         THEN /\ fault' = "null_call"
              /\ m' = [m EXCEPT !.pc = "crashed"]
              /\ h' = h
         ELSE /\ fault' = fault
              /\ h' = Owe(SinkCalled(f, g.cb_user, m.ev), "mice", m.ev)
              /\ m' = [m EXCEPT !.pc = "insink", !.nsink = @ + 1]
  /\ UNCHANGED <<g, os, w, app>>

(* the sink returns to the legacy reader *)
mice_call_return ==
  /\ Alive /\ m.pc = "insink"
  /\ m' = [m EXCEPT !.pc = "emit"]
  /\ UNCHANGED <<g, os, w, app, h, fault>>

(* ---------------------------------------------------------------------- *)
(* ni_poll called by several threads: the test, then the locked pop        *)
(* ---------------------------------------------------------------------- *)
(* if (!g.initialized || !evts || max_events <= 0) return -1; *)
poll_enter(c, max_events) ==
  /\ Alive /\ app.ps[c].pc = "idle"
  /\ app' = IF g.initialized = 0 \/ max_events <= 0
              THEN [app EXCEPT !.ps[c] = [PollerIdle EXCEPT !.max = max_events,
                                                            !.ret = -1]]
              ELSE [app EXCEPT !.ps[c] = [PollerIdle EXCEPT !.max = max_events,
                                                            !.pc = "pop"]]
  /\ UNCHANGED <<g, os, w, m, h, fault>>

(* a pop that copies the events out and leaves them in the ring *)
poll_pop_peek(c) ==
  /\ Alive /\ app.ps[c].pc = "pop"
  /\ LET p == ring_pop_many(g.queue, app.ps[c].max) IN
     /\ g' = g
     /\ app' = [app EXCEPT !.ps[c].pc = "idle", !.ps[c].ret = p.n,
                           !.ps[c].out = p.out]
  /\ UNCHANGED <<os, w, m, h, fault>>

(* return ring_pop_many(&g.queue, evts, max_events): one critical section
   of the ring mutex *)
poll_pop(c) ==
  /\ Alive /\ app.ps[c].pc = "pop"
  /\ LET p == ring_pop_many(g.queue, app.ps[c].max) IN
     /\ g' = [g EXCEPT !.queue = p.ring]
     /\ app' = [app EXCEPT !.ps[c].pc = "idle", !.ps[c].ret = p.n,
                           !.ps[c].out = p.out]
  /\ UNCHANGED <<os, w, m, h, fault>>

(* ---------------------------------------------------------------------- *)
(* ni_init(0) called by two threads at once, statement by statement        *)
(* ---------------------------------------------------------------------- *)
(* if (flags != 0) return -1; if (g.initialized) return 0; *)
init_enter(c) ==
  /\ Alive /\ app.cs[c].pc = "idle"
  /\ app' = [app EXCEPT !.cs[c].pc = IF g.initialized # 0 THEN "done" ELSE "memset"]
  /\ UNCHANGED <<g, os, w, m, h, fault>>

(* memset(&g, 0, sizeof g); ring_init; keyring_init; g.epoll_fd =
   epoll_create1(); g.mice_fd = -1; if (g.epoll_fd < 0) return -1; *)
init_memset(c) ==
  /\ Alive /\ app.cs[c].pc = "memset"
  /\ LET g0 == [GZero(Extent(g.queue)) EXCEPT !.mice_fd = -1]
         ep == sys_open(os, EpollObj)
     IN /\ g' = [g0 EXCEPT !.epoll_fd = ep.fd]
        /\ os' = ep.os
        /\ app' = IF ep.fd < 0
                    THEN [app EXCEPT !.cs[c].pc = "done", !.cs[c].ret = -1,
                                     !.cs[c].oserr = TRUE]
                    ELSE [app EXCEPT !.cs[c].pc = "watch", !.cs[c].ep = ep.fd]
  /\ UNCHANGED <<w, m, h, fault>>

(* g.inotify_fd = inotify_init1(); the watch and its epoll entry;
   scan_devices(); g.stop = 0; the default names *)
init_watch(c) ==
  /\ Alive /\ app.cs[c].pc = "watch"
  /\ LET ino == sys_open(os, InotifyObj)
         g2  == [g EXCEPT !.inotify_fd = ino.fd]
         o2  == IF ino.fd >= 0
                  THEN epoll_add(ino.os, g.epoll_fd, ino.fd, EPOLL_DATA_INOTIFY)
                  ELSE ino.os
         st  == scan_devices([g |-> g2, os |-> o2])
     IN /\ g' = [st.g EXCEPT !.stop = 0, !.xkb_names = DefaultNames(@)]
        /\ os' = st.os
        /\ fault' = FaultAfter(st.g)
        /\ app' = [app EXCEPT !.cs[c].pc = "thread",
                              !.cs[c].oserr = @ \/ ino.fd < 0]
  /\ UNCHANGED <<w, m, h>>

(* pthread_create(&g.thread, NULL, worker, NULL), the legacy reader if it
   is enabled, g.initialized = 1; return 0. A worker that already runs goes
   on running beside the new one. *)
init_thread(c) ==
  /\ Alive /\ app.cs[c].pc = "thread"
  /\ \E thr_ok \in BOOLEAN :
       IF ~thr_ok
         THEN /\ app' = [app EXCEPT !.cs[c].pc = "done", !.cs[c].ret = -1,
                                    !.cs[c].oserr = TRUE]
              /\ UNCHANGED <<g, w, m>>
         ELSE /\ g' = [g EXCEPT !.thread = 1, !.initialized = 1,
                                !.mice_thread = IF g.mice_enabled # 0 THEN 1 ELSE @]
              /\ w' = IF w.pc = "none" THEN [WNone EXCEPT !.pc = "loop"] ELSE w
              /\ m' = IF g.mice_enabled # 0 /\ m.pc = "none"
                        THEN [MNone EXCEPT !.pc = "start"] ELSE m
              /\ app' = [app EXCEPT !.cs[c].pc = "done", !.cs[c].ret = 0,
                                    !.cs[c].thr = 1]
  /\ UNCHANGED <<os, h, fault>>

(* ---------------------------------------------------------------------- *)
(* The engine with its threads, one application thread and the OS          *)
(* ---------------------------------------------------------------------- *)
Init ==
  /\ g = GZero(RingSlots)
  /\ os = OsInit
  /\ w = WNone
  /\ m = MNone
  /\ app = AppIdle
  /\ h = HInit
  /\ fault = "none"

PollSizes == {1, RingSlots}

Shutdown ==
  \/ shutdown_join_mice
  \/ shutdown_join_worker
  \/ shutdown_close

WorkerStep ==
  \/ worker_loop
  \/ worker_next
  \/ worker_read
  \/ worker_test
  \/ worker_call
  \/ worker_push

MiceStep ==
  \/ mice_start
  \/ mice_loop
  \/ mice_read
  \/ mice_emit
  \/ mice_call
  \/ mice_push
  \/ mice_exit

(* Spec: the raw stream. Any sink registration and poll, the worker, the
   device nodes. *)
Next ==
  \/ Budget /\ ni_init(0)
  \/ Budget /\ ni_shutdown
  \/ Shutdown
  \/ Budget /\ \E cb \in Sinks \cup {NULL} : ni_register_callback(cb, CtxOf(cb), 0)
  \/ Budget /\ \E max \in PollSizes : ni_poll(TRUE, max)
  \/ WorkerStep
  \/ \E n \in Nodes : Produce(n)

Spec == Init /\ [][Next]_vars

(* SpecLife: lifecycles with the legacy pointer reader, a sink, and a device
   that has input when shutdown is requested. *)
NextLife ==
  \/ Budget /\ ni_init(0)
  \/ Budget /\ ni_shutdown
  \/ Shutdown
  \/ Budget /\ ni_register_callback("S1", "U1", 0)
  \/ Budget /\ ni_poll(TRUE, RingSlots)
  \/ Budget /\ \E e \in {0, 1} : ni_enable_mice(e)
  \/ WorkerStep
  \/ MiceStep
  \/ Produce(0) /\ os.nprod[0] < LifePkts
  \/ MiceInput(1, 255, 0)

SpecLife == Init /\ [][NextLife]_vars

(* ---------------------------------------------------------------------- *)
(* The ring under a producer and a poller                                  *)
(* ---------------------------------------------------------------------- *)
(* the k-th event a producer thread dispatches *)
EventAt(k) ==
  [ZeroEvent EXCEPT !.device_id = 0, !.type = "NI_EV_KEY", !.code = "K",
                    !.value = k % 2, !.timestamp_ns = k * 1000]

(* emit_or_queue(&ev) by an engine thread, with no registration in between *)
emit_or_queue(ev) ==
  /\ Alive /\ g.initialized = 1
  /\ IF g.cb # NULL
       THEN /\ h' = [SinkCalled(g.cb, g.cb_user, ev) EXCEPT !.noffered = @ + 1]
            /\ g' = g
       ELSE /\ h' = [h EXCEPT !.noffered = @ + 1]
            /\ g' = [g EXCEPT !.queue = ring_push(@, ev)]
  /\ UNCHANGED <<os, w, m, app, fault>>

RingPollSizes == {1, 2, RingSlots, RingSlots + 1}

NextRing ==
  \/ app.calls = 0 /\ ni_init(0)
  \/ h.noffered < MaxOffer /\ emit_or_queue(EventAt(h.noffered + 1))
  \/ \E max \in RingPollSizes : ni_poll(TRUE, max)

SpecRing == Init /\ [][NextRing]_vars

(* the fill scenario on the ring of the engine proper: RING_SIZE slots, more
   than 2 * RING_SIZE events offered, then polls *)
InitFill ==
  /\ g = GZero(RING_SIZE)
  /\ os = OsInit
  /\ w = WNone
  /\ m = MNone
  /\ app = AppIdle
  /\ h = HInit
  /\ fault = "none"

NextFill ==
  \/ app.calls = 0 /\ ni_init(0)
  \/ /\ h.noffered < MaxFill /\ h.polls = 0
     /\ emit_or_queue(EventAt(h.noffered + 1))
  \/ /\ h.noffered >= 2 * RING_SIZE
     /\ \E max \in {RING_SIZE, RING_SIZE + 1} : ni_poll(TRUE, max)

SpecFill == InitFill /\ [][NextFill]_vars

(* ---------------------------------------------------------------------- *)
(* Shutdown under a device that keeps delivering, with fair scheduling     *)
(* ---------------------------------------------------------------------- *)
(* node n has its next packet ready whenever a handle of n has been drained *)
Flood(n) ==
  /\ Alive
  /\ \E fd \in Listeners("dev", n) : os.fds[fd].q = <<>>
  /\ os' = [os EXCEPT !.fds = [fd \in Fds |->
                                 IF fd \in Listeners("dev", n) /\ @[fd].q = <<>>
                                   THEN [@[fd] EXCEPT !.q = <<PacketAt(1)>>]
                                   ELSE @[fd]]]
  /\ UNCHANGED <<g, w, m, app, h, fault>>

NextLive ==
  \/ Budget /\ ni_init(0)
  \/ Budget /\ ni_shutdown
  \/ Shutdown
  \/ Budget /\ ni_register_callback("S1", CtxOf("S1"), 0)
  \/ WorkerStep
  \/ \E n \in Nodes : Flood(n)

(* threads are scheduled fairly; the OS and the application owe nothing *)
LiveSpec ==
  /\ Init /\ [][NextLive]_vars
  /\ WF_vars(WorkerStep)
  /\ WF_vars(Shutdown)

(* ---------------------------------------------------------------------- *)
(* SpecHot: the registry under hotplug, filter replacement and lifecycles  *)
(* ---------------------------------------------------------------------- *)
(* the predicates installed: none, reject every node, accept event0 only *)
HotFilters == {NoFilter, FilterOf({}), FilterOf({0})}

SetFilterStep ==
  \/ set_filter_scan
  \/ set_filter_add

(* the worker with the notifier; the devices stay silent in SpecHot *)
WorkerHotStep ==
  \/ worker_loop
  \/ worker_next
  \/ worker_inotify
  \/ worker_ino_add

(* any of the nodes may exist when the process starts *)
InitHot ==
  /\ g = GZero(RingSlots)
  /\ \E present \in SUBSET Nodes : os = [OsInit EXCEPT !.present = present]
  /\ w = WNone
  /\ m = MNone
  /\ app = AppIdle
  /\ h = HInit
  /\ fault = "none"

NextHot ==
  \/ Budget /\ ni_init(0)
  \/ Budget /\ ni_shutdown
  \/ Shutdown
  \/ Budget /\ \E f \in HotFilters : ni_set_device_filter(f, NULL)
  \/ SetFilterStep
  \/ Budget /\ ni_device_count
  \/ WorkerHotStep
  \/ \E n \in Nodes : CreateNode(n)
  \/ \E n \in Nodes : DeleteNode(n)

SpecHot == InitHot /\ [][NextHot]_vars

(* ---------------------------------------------------------------------- *)
(* SpecFilter: filter replacement while the worker drains its devices      *)
(* ---------------------------------------------------------------------- *)
(* the worker on device input alone: no notification, no sink *)
WorkerRingStep ==
  \/ worker_loop
  \/ worker_next
  \/ worker_read
  \/ worker_test
  \/ worker_push

NextFilter ==
  \/ Budget /\ ni_init(0)
  \/ Budget /\ \E f \in HotFilters : ni_set_device_filter(f, NULL)
  \/ SetFilterStep
  \/ WorkerRingStep
  \/ \E n \in Nodes : Produce(n)

SpecFilter == Init /\ [][NextFilter]_vars

(* ---------------------------------------------------------------------- *)
(* SpecKey: the raw stream and the keymap stream side by side              *)
(* ---------------------------------------------------------------------- *)
WorkerKeyStep ==
  \/ WorkerStep
  \/ worker_key
  \/ worker_key_use
  \/ worker_key_call

(* the legacy reader while it stays enabled *)
MiceRunStep ==
  \/ mice_start
  \/ mice_loop
  \/ mice_read
  \/ mice_emit
  \/ mice_call
  \/ mice_push

(* one keyboard, /dev/input/event0, is plugged in *)
InitKey ==
  /\ g = GZero(RingSlots)
  /\ os = [OsInit EXCEPT !.present = {0}]
  /\ w = WNone
  /\ m = MNone
  /\ app = AppIdle
  /\ h = HInit
  /\ fault = "none"

NextKey ==
  \/ Budget /\ ni_init(0)
  \/ Budget /\ \E on \in {0, 1} : ni_enable_xkb(on)
  \/ enable_xkb_apply
  \/ Budget /\ ni_register_callback("S1", CtxOf("S1"), 0)
  \/ Budget /\ \E cb \in KeySinks : ni_register_key_callback(cb, CtxOf(cb), 0)
  \/ WorkerKeyStep
  \/ \E n \in Nodes : Produce(n)

SpecKey == InitKey /\ [][NextKey]_vars

(* ---------------------------------------------------------------------- *)
(* SpecMiceKey: the legacy pointer reader while the keymap is enabled      *)
(* ---------------------------------------------------------------------- *)
NextMiceKey ==
  \/ Budget /\ ni_init(0)
  \/ Budget /\ ni_enable_xkb(1)
  \/ enable_xkb_apply
  \/ Budget /\ ni_enable_mice(1)
  \/ Budget /\ ni_register_callback("S1", CtxOf("S1"), 0)
  \/ MiceRunStep
  \/ \E btn \in {0, 1} : MiceInput(btn, 0, 0)

SpecMiceKey == InitKey /\ [][NextMiceKey]_vars

(* ---------------------------------------------------------------------- *)
(* SpecXkb: the keymap configuration calls beside the worker               *)
(* ---------------------------------------------------------------------- *)
(* the layouts an application asks for: none given, "de" *)
Layouts == {NULL, "de"}

(* the worker with no sink on either stream *)
WorkerRingKeyStep ==
  \/ WorkerRingStep
  \/ worker_key
  \/ worker_key_use

NextXkb ==
  \/ Budget /\ ni_init(0)
  \/ Budget /\ \E on \in {0, 1} : ni_enable_xkb(on)
  \/ enable_xkb_apply
  \/ Budget /\ \E layout \in Layouts :
                 ni_set_xkb_names(NULL, NULL, layout, NULL, NULL)
  \/ set_xkb_names_apply
  \/ WorkerRingKeyStep
  \/ \E n \in Nodes : Produce(n)

SpecXkb == InitKey /\ [][NextXkb]_vars

(* ---------------------------------------------------------------------- *)
(* SpecKeyOrder: two keyboards, the keymap stream polled or sunk           *)
(* ---------------------------------------------------------------------- *)
NextKeyOrder ==
  \/ Budget /\ ni_init(0)
  \/ Budget /\ ni_enable_xkb(1)
  \/ enable_xkb_apply
  \/ Budget /\ \E cb \in KeySinks : ni_register_key_callback(cb, CtxOf(cb), 0)
  \/ Budget /\ ni_poll_key_events(TRUE, RingSlots)
  \/ WorkerRingKeyStep
  \/ worker_key_call
  \/ \E n \in Nodes : Produce(n)

SpecKeyOrder == Init /\ [][NextKeyOrder]_vars

(* ---------------------------------------------------------------------- *)
(* SpecPoll: the two poll entry points with any arguments, in any state    *)
(* ---------------------------------------------------------------------- *)
(* max_events: negative, zero, positive *)
PollMax == {-1, 0, 2}

NextPoll ==
  \/ Budget /\ ni_init(0)
  \/ Budget /\ ni_shutdown
  \/ Shutdown
  \/ Budget /\ ni_enable_xkb(1)
  \/ enable_xkb_apply
  \/ Budget /\ \E evts \in BOOLEAN, max \in PollMax : ni_poll(evts, max)
  \/ Budget /\ \E evts \in BOOLEAN, max \in PollMax : ni_poll_key_events(evts, max)
  \/ WorkerRingKeyStep
  \/ \E n \in Nodes : Produce(n)

SpecPoll == InitKey /\ [][NextPoll]_vars

(* ---------------------------------------------------------------------- *)
(* SpecFlags: the entry points that take flags, with flags 0 and not 0     *)
(* ---------------------------------------------------------------------- *)
Flags == {0, 1}

NextFlags ==
  \/ Budget /\ \E flags \in Flags : ni_init(flags)
  \/ Budget /\ \E cb \in Sinks \cup {NULL}, flags \in Flags :
                 ni_register_callback(cb, CtxOf(cb), flags)
  \/ Budget /\ \E cb \in KeySinks \cup {NULL}, flags \in Flags :
                 ni_register_key_callback(cb, CtxOf(cb), flags)
  \/ WorkerStep
  \/ \E n \in Nodes : Produce(n)

SpecFlags == InitKey /\ [][NextFlags]_vars

(* ---------------------------------------------------------------------- *)
(* SpecInit: ni_init on a system short of epoll or inotify instances       *)
(* ---------------------------------------------------------------------- *)
(* the process starts with the per-user limit of epoll instances or of
   inotify instances reached, or neither *)
InitSys ==
  /\ g = GZero(RingSlots)
  /\ \E denied \in SUBSET {"epoll", "inotify"} :
       os = [OsInit EXCEPT !.present = {0}, !.denied = denied]
  /\ w = WNone
  /\ m = MNone
  /\ app = AppIdle
  /\ h = HInit
  /\ fault = "none"

NextInit ==
  \/ Budget /\ ni_init(0)
  \/ Budget /\ ni_shutdown
  \/ Shutdown
  \/ WorkerRingStep
  \/ \E n \in Nodes : Produce(n)

SpecInit == InitSys /\ [][NextInit]_vars

(* ---------------------------------------------------------------------- *)
(* SpecMice: the legacy pointer reader on three- and four-byte streams     *)
(* ---------------------------------------------------------------------- *)
InitMice ==
  /\ g = GZero(RingSlots)
  /\ \E proto \in {3, 4} : os = [OsInit EXCEPT !.present = {0}, !.mproto = proto]
  /\ w = WNone
  /\ m = MNone
  /\ app = AppIdle
  /\ h = HInit
  /\ fault = "none"

(* buttons: none, left; motion: none, +1, -1 as a byte *)
NextMice ==
  \/ Budget /\ ni_init(0)
  \/ Budget /\ ni_enable_mice(1)
  \/ Budget /\ ni_register_callback("S1", CtxOf("S1"), 0)
  \/ MiceRunStep
  \/ \E btn \in {0, 1}, dx \in {0, 1} : MiceInput(btn, dx, 0)
  \/ \E btn \in {0, 1}, dz \in {1, 255} : MiceInput4(btn, 0, 0, dz)

SpecMice == InitMice /\ [][NextMice]_vars

(* ---------------------------------------------------------------------- *)
(* SpecConc: two threads call ni_init(0) on an engine not yet initialized  *)
(* ---------------------------------------------------------------------- *)
InitCall(c) ==
  \/ init_enter(c)
  \/ init_memset(c)
  \/ init_watch(c)
  \/ init_thread(c)

NextConc ==
  \/ \E c \in Callers : InitCall(c)
  \/ WorkerRingStep
  \/ \E n \in Nodes : Produce(n)

SpecConc == Init /\ [][NextConc]_vars

(* ---------------------------------------------------------------------- *)
(* SpecReadErr: a node is unplugged while its handle has input queued      *)
(* ---------------------------------------------------------------------- *)
(* the worker on device input and delete notifications, no sink *)
WorkerErrStep ==
  \/ WorkerRingStep
  \/ worker_inotify

NextReadErr ==
  \/ Budget /\ ni_init(0)
  \/ Budget /\ ni_device_count
  \/ Budget /\ \E max \in {RingSlots} : ni_poll(TRUE, max)
  \/ WorkerErrStep
  \/ \E n \in Nodes : Produce(n)
  \/ \E n \in Nodes : DeleteNode(n)

SpecReadErr == Init /\ [][NextReadErr]_vars

(* ---------------------------------------------------------------------- *)
(* SpecPre: configuration calls before and after ni_init                   *)
(* ---------------------------------------------------------------------- *)
NextPre ==
  \/ Budget /\ ni_init(0)
  \/ Budget /\ \E f \in {NoFilter, FilterOf({0})} : ni_set_device_filter(f, NULL)
  \/ SetFilterStep
  \/ Budget /\ ni_enable_mice(1)
  \/ Budget /\ ni_set_xkb_names(NULL, NULL, "de", NULL, NULL)
  \/ set_xkb_names_apply
  \/ WorkerRingStep
  \/ \E n \in Nodes : Produce(n)

SpecPre == Init /\ [][NextPre]_vars

(* ---------------------------------------------------------------------- *)
(* SpecSink: the worker and the legacy reader deliver to one sink          *)
(* ---------------------------------------------------------------------- *)
NextSink ==
  \/ Budget /\ ni_init(0)
  \/ Budget /\ ni_enable_mice(1)
  \/ Budget /\ ni_register_callback("S1", CtxOf("S1"), 0)
  \/ worker_loop
  \/ worker_next
  \/ worker_read
  \/ worker_test
  \/ worker_push
  \/ worker_call_enter
  \/ worker_call_return
  \/ mice_start
  \/ mice_loop
  \/ mice_read
  \/ mice_emit
  \/ mice_push
  \/ mice_call_enter
  \/ mice_call_return
  \/ \E n \in Nodes : Produce(n)
  \/ MiceInput(1, 0, 0)

SpecSink == InitKey /\ [][NextSink]_vars

(* ---------------------------------------------------------------------- *)
(* SpecMulti: two consumers poll while the engine threads push             *)
(* ---------------------------------------------------------------------- *)
NextMulti ==
  \/ app.calls = 0 /\ ni_init(0)
  \/ h.noffered < MaxOffer /\ emit_or_queue(EventAt(h.noffered + 1))
  \/ \E c \in Callers, max \in {1, RingSlots} : poll_enter(c, max)
  \/ \E c \in Callers : poll_pop(c)

SpecMulti == Init /\ [][NextMulti]_vars

(* ---------------------------------------------------------------------- *)
(* SpecBuild: the engine built with and without the keymap library         *)
(* ---------------------------------------------------------------------- *)
InitBuild ==
  /\ g = GZero(RingSlots)
  /\ \E lib \in BOOLEAN : os = [OsInit EXCEPT !.present = {0}, !.have_xkb = lib]
  /\ w = WNone
  /\ m = MNone
  /\ app = AppIdle
  /\ h = HInit
  /\ fault = "none"

NextBuild ==
  \/ Budget /\ ni_init(0)
  \/ Budget /\ ni_enable_xkb(1)
  \/ enable_xkb_apply
  \/ Budget /\ ni_set_xkb_names(NULL, NULL, "de", NULL, NULL)
  \/ set_xkb_names_apply
  \/ Budget /\ ni_poll(TRUE, RingSlots)
  \/ WorkerRingKeyStep
  \/ \E n \in Nodes : Produce(n)

SpecBuild == InitBuild /\ [][NextBuild]_vars

(* ====================================================================== *)
(* Properties                                                              *)
(* ====================================================================== *)
(* a step of the application thread that completes (or starts) a call *)
Called(op) == app'.tick # app.tick /\ app'.op = op

(* the worker / the legacy reader is not in the middle of a dispatch and has
   decoded at least one event *)
WorkerDispatched == w.ev # ZeroEvent /\ w.pc \notin {"test", "call", "push"}
MiceDispatched == m.ev # ZeroEvent /\ m.pc \notin {"call", "push"}

(* C1: every decoded Event Record is handed to exactly one delivery path,
   once: the sink or the raw ring, whatever register_callback calls
   interleave with its dispatch. *)
C1_ExactlyOnePath ==
  /\ WorkerDispatched => w.nsink + w.nring = 1
  /\ MiceDispatched => m.nsink + m.nring = 1

(* an event is one the OS produced on node d, decoded field by field *)
IsPacketOf(e, d) ==
  \E k \in 1 .. os.nprod[d] : e = decode(d, PacketAt(k))

(* C2: per device the sink, and the concatenation of the poll results, see
   the packets the OS produced on that device, each at most once and in the
   order of production (strictly growing kernel timestamps), with the
   fields of the packet: press at t1, release at t2 arrive as (k,1,t1),
   (k,0,t2). *)
C2_PerDeviceOrder ==
  [][ /\ h'.sinkTick # h.sinkTick =>
           LET e == h'.sinkLast.ev IN
           /\ e.device_id \in Nodes
           /\ IsPacketOf(e, e.device_id)
           /\ e.timestamp_ns > h.sinkSeen[e.device_id]
      /\ (Called("ni_poll") /\ app'.ret >= 0) =>
           \A i \in 1 .. Len(app'.out) :
             LET e == app'.out[i] IN
             /\ e.device_id \in Nodes
             /\ IsPacketOf(e, e.device_id)
             /\ e.timestamp_ns >
                  LastOf(SubSeq(app'.out, 1, i - 1), e.device_id,
                         h.pollSeen[e.device_id])
    ]_vars

(* C2 witness: one poll returned press then release of the same device *)
C2_Witness ==
  /\ app.op = "ni_poll" /\ app.ret >= 2
  /\ app.out[1].device_id = app.out[2].device_id
  /\ app.out[1].value = 1 /\ app.out[2].value = 0
  /\ app.out[1].timestamp_ns < app.out[2].timestamp_ns

(* the first n events the producer offered *)
FirstOffered(n) == [i \in 1 .. n |-> EventAt(i)]

(* C3: ring_push on a full ring drops the incoming event and leaves head,
   tail and the stored events unchanged; with no pop, what the ring retains
   is the oldest events offered, in push order, field for field. *)
C3_FullRingDrops ==
  /\ [](h.polls = 0 =>
          Contents(g.queue) =
            FirstOffered(Min(h.noffered, Extent(g.queue) - 1)))
  /\ [][(h'.noffered # h.noffered /\ Full(g.queue)) => g'.queue = g.queue]_vars

(* C3 witness: more events offered than the ring holds, none popped *)
C3_Witness ==
  /\ h.polls = 0 /\ h.noffered > Extent(g.queue) - 1 /\ Full(g.queue)
  /\ Contents(g.queue)[1] = EventAt(1)

(* the first poll of the fill scenario has just returned *)
FirstPollAfterFill ==
  /\ app.op = "ni_poll" /\ h.polls = 1
  /\ app.max >= RING_SIZE /\ h.noffered >= 2 * RING_SIZE

(* C4 as claimed: after 2 x RING_SIZE pushes without a pop, a poll with
   max >= RING_SIZE returns exactly RING_SIZE (1024) records, the first being
   the first event pushed. *)
C4_ReturnsRingSize ==
  FirstPollAfterFill =>
    /\ app.ret = RING_SIZE
    /\ Len(app.out) >= 1 /\ app.out[1] = EventAt(1)

(* C4 amended: after 2 x RING_SIZE pushes without a pop, a poll with
   max >= RING_SIZE returns exactly RING_SIZE - 1 (1023) records, the first
   being the first event pushed. *)
C4_ReturnsRingSizeLessOne ==
  FirstPollAfterFill =>
    /\ app.ret = RING_SIZE - 1
    /\ Len(app.out) = RING_SIZE - 1 /\ app.out[1] = EventAt(1)

C4_Witness == FirstPollAfterFill /\ app.ret = 1023

(* C5: pop_many(out, max) on a ring holding n events returns min(n, max),
   copies the min(n, max) oldest events in push order, removes exactly those
   and leaves the others queued in order; with no sink and n events
   dispatched, n not above what the ring holds, a first poll with max >= n
   returns all n. *)
C5_PopMany ==
  [][ (Called("ni_poll") /\ app'.ret >= 0) =>
        LET c == Contents(g.queue)
            n == Len(c)
            k == Min(n, app'.max)
        IN /\ n = Count(g.queue)
           /\ app'.ret = k
           /\ app'.out = SubSeq(c, 1, k)
           /\ Contents(g'.queue) = SubSeq(c, k + 1, n)
           /\ (h.polls = 0 /\ g.cb = NULL /\ h.noffered <= Extent(g.queue) - 1
               /\ app'.max >= h.noffered)
                => (app'.ret = h.noffered /\ app'.out = FirstOffered(h.noffered))
    ]_vars

(* C5 witness: a poll took max events and left others queued *)
C5_Witness ==
  /\ app.op = "ni_poll" /\ app.ret = app.max /\ app.ret >= 2
  /\ Count(g.queue) >= 1

(* C6 as claimed: while a non-null sink is registered, ni_poll with valid
   arguments returns 0, whatever preceded the registration. *)
C6_PollReturnsZero ==
  (app.op = "ni_poll" /\ g.initialized = 1 /\ g.cb # NULL) => app.ret = 0

(* C6 amended: while a non-null sink is registered, ni_poll with valid
   arguments returns the events still queued (min(max, their number)), which
   is 0 once the ring is empty; and a dispatch queues an event only after
   reading the sink pointer as null. *)
C6_PollReturnsQueued ==
  /\ [][ (Called("ni_poll") /\ g.initialized = 1 /\ g.cb # NULL) =>
           /\ app'.ret = Min(app'.max, Count(g.queue))
           /\ (Count(g.queue) = 0 => app'.ret = 0) ]_vars
  /\ [](w.pc = "push" => w.cbv = NULL)

(* C6 witness: a poll under a registered sink returned an event *)
C6_Witness ==
  app.op = "ni_poll" /\ g.initialized = 1 /\ g.cb # NULL /\ app.ret > 0

(* the engine is down: not initialized and no call in progress *)
Down == g.initialized = 0 /\ app.pc = "idle"

(* C7: after ni_shutdown has returned and until the next successful ni_init,
   ni_poll and ni_register_callback return a negative status, no engine
   thread exists and none invokes a sink. *)
C7_AfterShutdown ==
  /\ []((Down /\ app.op \in {"ni_poll", "ni_register_callback"}) => app.ret < 0)
  /\ [][Down => h'.sinkTick = h.sinkTick]_vars
  /\ [](Down => (w.pc = "none" /\ m.pc = "none"))

(* C7 witness: a sink has been invoked, the engine was shut down, and a
   raw-stream call was refused *)
C7_Witness ==
  /\ Down /\ app.op \in {"ni_poll", "ni_register_callback"} /\ app.ret < 0
  /\ h.sinkLast # NoCall /\ g.cb # NULL

(* C8: when ni_shutdown returns on an initialized engine the worker and the
   legacy reader have terminated and the device handles of the registry, the
   hotplug notifier, the multiplexer and the legacy pointer handle are
   closed, also when the worker was draining a device at the request. *)
C8_ShutdownReleases ==
  [][ (app.pc = "close" /\ app'.pc = "idle") =>
        /\ w'.pc = "none" /\ m'.pc = "none"
        /\ \A fd \in RegistryFds(g') \cup {g'.inotify_fd, g'.epoll_fd} :
             ~IsOpen(os', fd)
        /\ \A fd \in Fds : os'.fds[fd].kind # "mice"
        /\ g'.mice_fd = -1
    ]_vars

(* C8 witness: shutdown returned; the reader had been started, devices were
   registered, and the request found the worker draining *)
C8_Witness ==
  /\ Down /\ app.op = "ni_shutdown" /\ g.thread # 0
  /\ g.mice_thread # 0 /\ g.ndevi > 0 /\ h.middrain
  /\ m.ev # ZeroEvent

(* C9: ni_shutdown on an initialized engine eventually returns, also when a
   device keeps delivering packets. *)
C9_ShutdownReturns == (app.pc # "idle") ~> (app.pc = "idle")

(* C10: ni_init(0) on an initialized engine returns 0 and changes nothing:
   registry, rings, sinks and contexts, filter, threads, descriptors. *)
C10_InitIdempotent ==
  [][ (Called("ni_init") /\ g.initialized = 1) =>
        /\ app'.ret = 0
        /\ g' = g /\ w' = w /\ m' = m /\ os' = os /\ fault' = fault
    ]_vars

(* C10 witness: ni_init returned on an engine that keeps a registered sink,
   a queued event and its devices *)
C10_Witness ==
  /\ app.op = "ni_init" /\ app.ret = 0 /\ g.initialized = 1
  /\ g.cb # NULL /\ Count(g.queue) > 0 /\ g.ndevi > 0 /\ w.pc # "none"

(* C11: the number of registered descriptors never exceeds the extent of the
   registry array (MAX_DEVICES), so no descriptor is stored past its end. *)
C11_CountBounded == g.ndevi <= DevSlots /\ fault # "registry_overflow"

(* the slots below g.ndevi whose handle is an open device handle *)
OpenSlots(gg, o) ==
  {i \in 0 .. Min(gg.ndevi, DevSlots) - 1 :
     IsOpen(o, gg.devices[i].fd) /\ o.fds[gg.devices[i].fd].kind = "dev"}

(* C12: whenever it is called (before init, while running, after shutdown
   has returned) ni_device_count returns the number of descriptors registered,
   each holding an open device handle. *)
C12_CountIsRegistered ==
  [][ Called("ni_device_count") =>
        app'.ret = Cardinality(OpenSlots(g, os)) ]_vars

(* C13: no two registered descriptors have the same stable id. *)
C13_UniqueIds ==
  \A i, j \in 0 .. Min(g.ndevi, DevSlots) - 1 :
    i # j => g.devices[i].id # g.devices[j].id

(* ni_set_device_filter returns from an initialized engine in this step *)
SetFilterReturns == app.pc = "scan" /\ app'.pc = "idle"

(* C14: when ni_set_device_filter(pred, ctx) returns on an initialized
   engine no registered descriptor is one that pred rejects (none at all when
   pred rejects every device), and no handle outside the registry is left
   registered with the multiplexer. *)
C14_NoRejectedLeft ==
  [][ SetFilterReturns =>
        /\ \A d \in Registered(g') : keep(g', d)
        /\ (g'.filter = FilterOf({}) => g'.ndevi = 0)
        /\ \A e \in os'.ep :
             (e.epfd = g'.epoll_fd /\ os'.fds[e.fd].kind = "dev")
               => e.fd \in RegistryFds(g')
    ]_vars

(* the slots that hold id n *)
SlotsOf(gg, n) == {i \in 0 .. Min(gg.ndevi, DevSlots) - 1 : gg.devices[i].id = n}

(* no hotplug activity from the call of ni_set_device_filter to its return *)
QuietCall == h.pre.quiet /\ os'.nhot = h.pre.nhot

(* C15: when ni_set_device_filter(pred, ctx) returns on an initialized
   engine, every accepted node of the scan range that was not registered
   before the call is registered, never twice, and (hotplug being quiet
   during the call, the node openable) once with its handle in the
   multiplexer; every accepted descriptor registered before is still
   registered with the same id and handle. *)
C15_AcceptedRegistered ==
  [][ SetFilterReturns =>
        /\ \A n \in 0 .. DevSlots - 1 :
             (keep(g', [fd |-> 0, id |-> n]) /\ ~ \E d \in h.pre.reg : d.id = n) =>
               /\ Cardinality(SlotsOf(g', n)) <= 1
               /\ (QuietCall /\ n \in os'.present /\ FreeFds(os') # {}) =>
                    \E i \in SlotsOf(g', n) :
                      \E e \in os'.ep : e.fd = g'.devices[i].fd
        /\ QuietCall => \A d \in h.pre.reg : keep(g', d) => d \in Registered(g')
    ]_vars

(* the notification the worker is about to take from the notifier *)
NextNote ==
  IF w.pc = "inotify" /\ IsOpen(os, g.inotify_fd)
     /\ os.fds[g.inotify_fd].kind = "inotify" /\ os.fds[g.inotify_fd].q # <<>>
    THEN Head(os.fds[g.inotify_fd].q)
    ELSE [mask |-> "none", n |-> -1]

(* the worker takes that notification in this step *)
NoteTaken ==
  /\ NextNote.mask # "none"
  /\ Len(os'.fds[g.inotify_fd].q) < Len(os.fds[g.inotify_fd].q)

(* C16: the worker step that drains a delete notification for eventN leaves
   no descriptor with id N, the handles of the descriptors it had closed and
   out of the multiplexer; the step that registers a node opened on a create
   notification leaves it registered. *)
C16_HotplugApplied ==
  [][ /\ (NextNote.mask = "IN_DELETE" /\ NoteTaken) =>
           /\ SlotsOf(g', NextNote.n) = {}
           /\ \A i \in SlotsOf(g, NextNote.n) : ~IsOpen(os', g.devices[i].fd)
      /\ (w.pc = "ino_add" /\ w'.pc = "inotify") => SlotsOf(g', w.hid) # {}
    ]_vars

(* C18: with ni_set_device_filter running beside the worker, whenever the
   worker is about to read(fd) the handle a descriptor slot gave it, that
   handle is still an open device handle: ni_set_device_filter has not
   closed it under the worker. *)
C18_WorkerReadsOpenHandle ==
  w.pc = "read" => (IsOpen(os, w.fd) /\ os.fds[w.fd].kind = "dev")

(* C17: every sink invocation uses a function pointer and a user context
   installed together by one ni_register_callback call, and the worker never
   calls a null sink. *)
C17_SinkPairConsistent ==
  /\ fault # "null_call"
  /\ h.sinkLast # NoCall =>
       (h.sinkLast.cb # NULL /\ h.sinkLast.user = CtxOf(h.sinkLast.cb))

(* the positions of the worker inside maybe_emit_key_event *)
KeyPcs == {"key", "keyuse", "keycall"}

(* C19: while the keymap is enabled, every KEY Event Record delivered on
   the raw stream, by either engine thread, is followed by exactly one Key
   Record with the same device_id and timestamp_ns before that thread goes
   on, and no Key Record is delivered without such a raw KEY event. *)
C19_OneKeyRecordPerKey ==
  /\ h.owed["mice"] = 0
  /\ w.pc \notin KeyPcs \cup {"crashed"} => h.owed["worker"] = 0
  /\ h.keyLast # NoKey =>
       /\ h.keyLast.base.type = "NI_EV_KEY"
       /\ h.keyLast.raw = 1
       /\ h.keyLast.kev.device_id = h.keyLast.base.device_id
       /\ h.keyLast.kev.timestamp_ns = h.keyLast.base.timestamp_ns

(* e is packet k of node e.device_id with the fields the OS gave it: the
   code in the OS code space, the kernel time in nanoseconds *)
RawRecord(e) ==
  /\ e.device_id \in Nodes
  /\ \E k \in 1 .. os.nprod[e.device_id] :
       /\ e.type = PacketAt(k).type
       /\ e.code = PacketAt(k).code
       /\ e.value = PacketAt(k).value
       /\ e.timestamp_ns = PacketAt(k).sec * 1000000000 + PacketAt(k).usec * 1000
  /\ e.extra = 0 /\ e.x = 0 /\ e.y = 0

(* a step of the keymap layer: the worker inside maybe_emit_key_event, or
   the application inside a keymap entry point *)
KeymapStep ==
  \/ w.pc \in KeyPcs /\ w' # w
  \/ app.pc \in {"xkb", "names"} /\ app' # app
  \/ Called("ni_enable_xkb")
  \/ Called("ni_set_xkb_names")
  \/ Called("ni_register_key_callback")

(* C20: the keymap layer is additive. Whatever the keymap does (enabled,
   disabled, toggled while the worker runs), every raw Event Record handed
   to the sink or pushed on the ring carries the fields of its OS packet
   with the code in the OS code space (never code + 8), the path depends on
   the raw sink alone, and no step of the keymap layer touches the raw
   ring, the raw sink, the worker's event or the pending OS input. *)
C20_RawStreamAdditive ==
  [][ /\ h'.sinkTick # h.sinkTick => RawRecord(h'.sinkLast.ev)
      /\ (g'.queue.head # g.queue.head) =>
           RawRecord(g'.queue.ev[g.queue.head])
      /\ (w.pc = "test" /\ w' # w) =>
           (w'.pc = (IF g.cb # NULL THEN "call" ELSE "push")
            /\ w'.ev = w.ev /\ RawRecord(w.ev))
      /\ KeymapStep =>
           /\ g'.queue = g.queue /\ g'.cb = g.cb /\ g'.cb_user = g.cb_user
           /\ h'.sinkTick = h.sinkTick /\ h'.sinkLast = h.sinkLast
           /\ w'.ev = w.ev /\ w'.nsink = w.nsink /\ w'.nring = w.nring
           /\ os'.fds = os.fds
    ]_vars

(* C20 witness: with the keymap enabled the press of "K" was delivered on
   the raw stream with its OS code and interpreted as keysym "a" *)
C20_Witness ==
  /\ g.xkb_enabled # 0
  /\ h.keyLast # NoKey /\ h.keyLast.raw = 1
  /\ h.keyLast.kev.keysym = 97 /\ h.keyLast.kev.text = "a"
  /\ h.keyLast.base.code = "K" /\ h.keyLast.base.value = 1

(* a keymap entry point returns a negative status *)
KeymapCallFails == app.pc \in {"xkb", "names"} /\ app'.pc = "idle" /\ app'.ret < 0

(* C21: when the keymap build fails inside ni_enable_xkb(1) or
   ni_set_xkb_names the call returns a negative status and the enabled
   flag, the five names and the active keymap state are what they were
   before the call. *)
C21_BuildFailureKeepsConfig ==
  [][ KeymapCallFails => KeymapConfig(g') = h.kpre ]_vars

(* the worker hands its event to the raw sink or the raw ring in this step *)
RawDelivered == w.nsink + w.nring = 0 /\ w'.nsink + w'.nring = 1

(* a Key Record reaches the key sink or the key ring in this step *)
KeyRecordDelivered == h'.keySeen # h.keySeen \/ h'.keyLast # h.keyLast

(* C22: per device the keymap stream has the order of the raw KEY stream.
   A Key Record is delivered after the raw event it derives from (the event
   the worker holds and has dispatched once) and before the worker delivers
   the next raw event; per device the timestamps of the Key Records handed
   to the key sink, and of those returned by ni_poll_key_events, grow
   strictly. *)
C22_KeyOrder ==
  [][ /\ KeyRecordDelivered =>
           LET k == h'.keyLast.kev IN
           /\ h'.keyLast.base = w.ev /\ h'.keyLast.raw = 1
           /\ k.device_id = w.ev.device_id
           /\ k.timestamp_ns = w.ev.timestamp_ns
           /\ k.timestamp_ns > h.keySeen[k.device_id]
      /\ RawDelivered =>
           /\ h.keySeen[w.ev.device_id] < w.ev.timestamp_ns
           /\ h.owed["worker"] = 0
      /\ (Called("ni_poll_key_events") /\ app'.ret >= 0) =>
           \A i \in 1 .. Len(app'.out) :
             LET k == app'.out[i] IN
             /\ k.timestamp_ns >
                  LastOf(SubSeq(app'.out, 1, i - 1), k.device_id,
                         h.keyPollSeen[k.device_id])
             /\ k.timestamp_ns <= h.keySeen[k.device_id]
    ]_vars

(* C22 witness: one key poll returned the press and then the release of the
   same device *)
C22_Witness ==
  /\ app.op = "ni_poll_key_events" /\ app.ret >= 2
  /\ app.out[1].device_id = app.out[2].device_id
  /\ app.out[1].down = 1 /\ app.out[2].down = 0
  /\ app.out[1].timestamp_ns < app.out[2].timestamp_ns

(* the arguments or the engine state make a poll call invalid *)
BadPoll == ~h'.evts \/ app'.max <= 0 \/ g.initialized = 0

(* C23: ni_poll and ni_poll_key_events return a negative value when the
   buffer is null, when max is <= 0 or when the engine is not initialized,
   and then leave their ring (head, tail, contents) unchanged. *)
C23_BadPollRejected ==
  [][ /\ (Called("ni_poll") /\ BadPoll) =>
           (app'.ret < 0 /\ g'.queue = g.queue /\ app'.out = <<>>)
      /\ (Called("ni_poll_key_events") /\ BadPoll) =>
           (app'.ret < 0 /\ g'.key_queue = g.key_queue /\ app'.out = <<>>)
    ]_vars

(* C23 witness: events are queued on the raw ring and a poll was refused,
   with a null buffer on a running engine *)
C23_Witness ==
  /\ app.op = "ni_poll" /\ app.ret < 0 /\ app.max > 0
  /\ ~h.evts /\ g.initialized = 1
  /\ Count(g.queue) > 0

(* C24: ni_init, ni_register_callback and ni_register_key_callback return a
   negative status when flags is not 0 and leave the engine as it was: no
   initialization, the registered sinks and contexts stay registered. *)
C24_BadFlagsRejected ==
  [][ ((Called("ni_init") \/ Called("ni_register_callback")
         \/ Called("ni_register_key_callback")) /\ h'.flags # 0) =>
        (app'.ret < 0 /\ g' = g /\ os' = os) ]_vars

(* what ni_init is to create, as left by the call *)
MultiplexerCreated ==
  IsOpen(os', g'.epoll_fd) /\ os'.fds[g'.epoll_fd].kind = "epoll"
WatcherCreated ==
  IsOpen(os', g'.inotify_fd) /\ os'.fds[g'.inotify_fd].kind = "inotify"
WorkerCreated == g'.thread # 0 /\ w'.pc # "none"

(* C25: an ni_init(0) that has to initialize returns 0 if the multiplexer,
   the hotplug watcher and the worker thread were all created, and a
   negative status if the creation of any of them failed. *)
C25_InitReportsFailure ==
  [][ (Called("ni_init") /\ h'.flags = 0 /\ g.initialized = 0) =>
        /\ app'.ret \in {0, -1}
        /\ app'.ret = 0 <=>
             (MultiplexerCreated /\ WatcherCreated /\ WorkerCreated) ]_vars

(* the legacy reader's read() of this step took n bytes, with no byte of an
   earlier read held over *)
MiceTook(n) ==
  /\ m.pc = "read" /\ m'.pc = "emit" /\ m.pkt = <<>>
  /\ Len(os.fds[g.mice_fd].q) - Len(os'.fds[g.mice_fd].q) = n

(* code and value of the KEY events of a batch, in order *)
RECURSIVE KeysOf(_)
KeysOf(todo) ==
  IF todo = <<>> THEN <<>>
  ELSE (IF Head(todo).type = "NI_EV_KEY"
          THEN << <<Head(todo).code, Head(todo).value>> >> ELSE <<>>)
       \o KeysOf(Tail(todo))

(* the edges between two button masks: press 1, release 0 *)
KeyEdges(prev, btn) ==
     (IF Bit(btn, 1) # Bit(prev, 1) THEN << <<"NI_BTN_LEFT", Bit(btn, 1)>> >> ELSE <<>>)
  \o (IF Bit(btn, 2) # Bit(prev, 2) THEN << <<"NI_BTN_RIGHT", Bit(btn, 2)>> >> ELSE <<>>)
  \o (IF Bit(btn, 4) # Bit(prev, 4) THEN << <<"NI_BTN_MIDDLE", Bit(btn, 4)>> >> ELSE <<>>)

(* C26: for a packet the legacy reader emits a KEY Event Record for a
   primary button if and only if that button's bit differs from its bit in
   the previous packet (1 on press, 0 on release); a packet that carries
   only motion emits no KEY record. *)
C26_ButtonEdges ==
  [][ (os.mproto = 3 /\ MiceTook(3)) =>
        KeysOf(m'.todo) = KeyEdges(h.prevBtn, os.fds[g.mice_fd].q[1]) ]_vars

(* C27: of a four-byte stream the legacy reader consumes four bytes per
   packet and emits REL X (signed second byte), REL Y (negated signed third
   byte) and REL wheel (signed fourth byte); the fourth byte is not kept as
   the first byte of the next packet. *)
C27_WheelPacket ==
  [][ (os.mproto = 4 /\ MiceTook(4)) =>
        LET q == os.fds[g.mice_fd].q
            Rel(code, v) ==
              \E i \in 1 .. Len(m'.todo) :
                /\ m'.todo[i].type = "NI_EV_REL" /\ m'.todo[i].code = code
                /\ m'.todo[i].value = v
        IN /\ m'.pkt = <<>>
           /\ Rel("NI_REL_X", SignedChar(q[2]))
           /\ Rel("NI_REL_Y", -SignedChar(q[3]))
           /\ Rel("NI_REL_WHEEL", SignedChar(q[4])) ]_vars

(* the kinds of an Event Record *)
Kinds == {"NI_EV_SYN", "NI_EV_KEY", "NI_EV_REL", "NI_EV_ABS", "NI_EV_MSC"}

(* C28: every Event Record delivered on the raw stream, handed to the sink
   or queued on the ring, has one of the kinds SYN, KEY, REL, ABS, MSC. *)
C28_KindsOfRecords ==
  /\ h.sinkLast # NoCall => h.sinkLast.ev.type \in Kinds
  /\ \A i \in 1 .. Len(Contents(g.queue)) : Contents(g.queue)[i].type \in Kinds

(* both concurrent ni_init calls have returned, the OS having refused
   nothing *)
BothReturned ==
  \A c \in Callers : app.cs[c].pc = "done" /\ ~app.cs[c].oserr

(* C29: when two threads call ni_init(0) concurrently on an uninitialized
   engine both calls return 0, exactly one worker thread and one
   multiplexer are created, and the engine is as after a sequential
   execution: initialized, its multiplexer open and holding every
   registered handle. *)
C29_ConcurrentInit ==
  BothReturned =>
    /\ \A c \in Callers : app.cs[c].ret = 0
    /\ Cardinality({c \in Callers : app.cs[c].thr = 1}) = 1
    /\ Cardinality({c \in Callers : app.cs[c].ep >= 0}) = 1
    /\ g.initialized = 1
    /\ IsOpen(os, g.epoll_fd) /\ os.fds[g.epoll_fd].kind = "epoll"
    /\ \A fd \in RegistryFds(g) :
         IsOpen(os, fd) /\ \E e \in os.ep : e.epfd = g.epoll_fd /\ e.fd = fd

(* the step in which a read of a device handle fails with an error *)
ReadFails ==
  /\ w.pc = "read" /\ w'.pc # "read" /\ ReadResult(os, w.fd) = "err"

(* a tag of the wake is taken up: the worker leaves "next" for a tag of evs *)
ServesNextTag ==
  /\ w'.evs \subseteq w.evs /\ Cardinality(w'.evs) = Cardinality(w.evs) - 1
  /\ w'.pc \in {"read", "inotify"}

(* C30: a read error on a device handle ends only that device's read loop
   for the current wake: the registry (ids, handles, count) and the OS
   handles are as before, no Event Record is handed to a sink or queued,
   and the worker goes on with the remaining ready tags of the wake. *)
C30_ReadErrorEndsOnlyThatLoop ==
  [][/\ ReadFails =>
          /\ g'.devices = g.devices /\ g'.ndevi = g.ndevi
          /\ g'.epoll_fd = g.epoll_fd
          /\ os'.fds = os.fds /\ os'.ep = os.ep
          /\ g'.queue = g.queue /\ g'.key_queue = g.key_queue /\ h' = h
          /\ w'.pc = "next" /\ w'.evs = w.evs /\ w'.r = "err"
     /\ (w.pc = "next" /\ w.r = "err" /\ w.evs # {} /\ w' # w) => ServesNextTag
    ]_vars

(* a read of a registered, still open handle has failed while another tag
   of the same wake is still to be served *)
C30_Witness ==
  /\ w.pc = "next" /\ w.r = "err" /\ w.evs # {}
  /\ w.dev < g.ndevi /\ g.devices[w.dev].fd = w.fd /\ IsOpen(os, w.fd)
  /\ os.fds[w.fd].q # <<>>

(* C31: after any additions and removals, the readiness tag registered for
   the handle of each registered device locates a descriptor slot holding
   that same handle (and so that device's id), so the worker woken for the
   device reads the device's own handle. *)
C31_TagLocatesDescriptor ==
  (Alive /\ g.initialized = 1 /\ g.ndevi <= DevSlots) =>
    \A i \in 0 .. g.ndevi - 1 :
      \A e \in os.ep :
        (e.epfd = g.epoll_fd /\ e.fd = g.devices[i].fd) =>
          /\ e.tag \in 0 .. DevSlots - 1
          /\ g.devices[e.tag].fd = e.fd
          /\ g.devices[e.tag].id = g.devices[i].id

(* C32: ni_enable_xkb and ni_set_xkb_names are safe beside the running
   worker: the worker, interpreting a KEY event, is never about to use and
   never has used a keymap state the caller has already released. *)
C32_KeymapStateNotUsedAfterRelease ==
  /\ fault # "xkb_use_after_free"
  /\ (w.pc = "keyuse") => os.xkb[w.xst].live

(* C33: when ni_init(0) returns a negative status the engine holds no OS
   resources: no handle (device, multiplexer, notifier) is left open, no
   worker thread runs, and the engine is not initialized. *)
C33_FailedInitHoldsNothing ==
  [][ (Called("ni_init") /\ h'.flags = 0 /\ app'.ret < 0) =>
        /\ \A fd \in Fds : ~IsOpen(os', fd)
        /\ w'.pc = "none"
        /\ g'.initialized = 0 ]_vars

(* C34: configuration accepted before initialization is in effect after the
   next successful ni_init: the installed predicate is still installed and
   every device registered by the initial scan satisfies it, the legacy
   reader is started if it was enabled, and the identifiers stored by
   ni_set_xkb_names are the ones the engine holds for the keymap. *)
C34_EarlyConfigurationKept ==
  [][ (Called("ni_init") /\ h'.flags = 0 /\ g.initialized = 0 /\ app'.ret = 0) =>
        /\ g'.filter = g.filter
        /\ \A i \in 0 .. g'.ndevi - 1 : keep(g, g'.devices[i])
        /\ (g.mice_enabled # 0) => (g'.mice_enabled # 0 /\ m'.pc # "none")
        /\ g'.xkb_names = DefaultNames(g.xkb_names) ]_vars

(* C35: on an initialized engine, whenever the last call was
   ni_enable_mice(1), it returned 0 and the legacy pointer stream can be
   opened, a legacy reader task exists that has not ended; in particular
   disabling and re-enabling restarts the reader. *)
C35_EnabledReaderRuns ==
  ( /\ Alive /\ g.initialized = 1 /\ g.stop = 0
    /\ app.pc = "idle" /\ app.op = "ni_enable_mice" /\ app.ret = 0
    /\ g.mice_enabled = 1
    /\ FreeFds(os) # {} /\ "mice" \notin os.denied )
  => m.pc \notin {"none", "done"}

(* C36: invocations of the registered raw sink never overlap: the worker
   and the legacy reader are never both inside the sink. *)
C36_SinkCallsDoNotOverlap ==
  ~(w.pc = "insink" /\ m.pc = "insink")

(* consumer c completes its pop in this step *)
Popping(c) == app.ps[c].pc = "pop" /\ app'.ps[c].pc = "idle"

(* C37: with several threads in ni_poll while the worker and the legacy
   reader push, a pop returns the oldest events of the queue in push order
   and removes exactly those, touching no other consumer's result; every
   other step leaves the queued events queued and appends at most one.
   So each accepted event goes to exactly one call, as a contiguous run. *)
C37_EachEventToOneConsumer ==
  [][ (g.initialized = 1 /\ g'.initialized = 1) =>
        LET cq == Contents(g.queue)
            cn == Contents(g'.queue)
        IN /\ \A c \in Callers :
                Popping(c) =>
                  LET n == Min(app.ps[c].max, Len(cq)) IN
                  /\ app'.ps[c].out = SubSeq(cq, 1, n)
                  /\ app'.ps[c].ret = n
                  /\ cn = SubSeq(cq, n + 1, Len(cq))
                  /\ \A d \in Callers \ {c} : app'.ps[d] = app.ps[d]
           /\ (\A c \in Callers : ~Popping(c)) =>
                /\ Len(cn) \in {Len(cq), Len(cq) + 1}
                /\ SubSeq(cn, 1, Len(cq)) = cq ]_vars

(* each consumer holds a run of events from an earlier call and the first
   is in a further call, between the test and the pop, with events queued *)
C37_Witness ==
  /\ app.ps[1].pc = "pop" /\ app.ps[2].pc = "idle"
  /\ Len(app.ps[2].out) = 2 /\ app.ps[2].out[1] = EventAt(2)
  /\ Count(g.queue) = 2 /\ Contents(g.queue)[1] = EventAt(4)

(* the worker takes a create notification off the notifier in this step,
   the rescan window not being armed *)
HandlesCreate ==
  /\ w.pc = "inotify" /\ g.rescan_until_ns = 0
  /\ IsOpen(os, g.inotify_fd) /\ os.fds[g.inotify_fd].kind = "inotify"
  /\ os.fds[g.inotify_fd].q # <<>>
  /\ Head(os.fds[g.inotify_fd].q).mask = "IN_CREATE"
  /\ os'.fds[g.inotify_fd].q = Tail(os.fds[g.inotify_fd].q)

(* open() of /dev/input/event<n> fails: no such node, or no descriptor left *)
OpenFails(o, n) == n \notin o.present \/ FreeFds(o) = {} \/ "dev" \in o.denied

(* C38: a create notification arms the rescan window if and only if the
   open of the node failed (a node opened and rejected by the predicate
   does not arm it), and outside an armed window a worker wake runs no
   discovery pass. *)
C38_RescanArmedOnOpenFailureOnly ==
  [][ /\ HandlesCreate =>
           ((g'.rescan_until_ns # 0)
              <=> OpenFails(os, Head(os.fds[g.inotify_fd].q).n))
      /\ (w.pc = "loop" /\ w' # w /\ g.rescan_until_ns = 0) =>
           (g' = g /\ os' = os) ]_vars

(* C39: on a build without the keymap library ni_enable_xkb and
   ni_set_xkb_names return a negative status, while an ni_init(0) that the
   OS refuses nothing returns 0 with the engine initialized and the worker
   started, as on a build with the library. *)
C39_BuildWithoutKeymapLibrary ==
  [][ ~os.have_xkb =>
        /\ (app.pc \in {"xkb", "names"} /\ app'.pc = "idle") => app'.ret < 0
        /\ (Called("ni_init") /\ h'.flags = 0 /\ g.initialized = 0 /\ h'.thrOk
              /\ Cardinality(FreeFds(os)) >= 2 + Cardinality(os.present))
             => (app'.ret = 0 /\ g'.initialized = 1 /\ w'.pc = "loop") ]_vars

====
